---------------------------- MODULE Spec2Model ----------------------------
(***************************************************************************)
(* Container lifecycle manager (backend/api_deployer.py, class APIDeployer)*)
(* and the gateway handler that drives it (backend/main.py).               *)
(*                                                                         *)
(* Scheduling.  The gateway is one asyncio event loop.  A coroutine runs   *)
(* without interruption until it awaits something that really suspends.    *)
(* Every Docker SDK call and every metadata-store call in the source is a  *)
(* plain synchronous call, so the only suspension points are the health    *)
(* probe and the sleep of deploy_api's poll loop and the body read and the *)
(* upstream call of the proxy handler.  One action of this module is one   *)
(* such uninterrupted run of code.                                         *)
(*                                                                         *)
(* The Docker daemon is the environment: it keeps container names unique,  *)
(* lets containers exit on their own, and restarts them under the          *)
(* "unless-stopped" policy the deployer asks for.                          *)
(***************************************************************************)
EXTENDS Integers, Sequences, FiniteSets, TLC

VARIABLES
    api_containers,   \* APIDeployer.api_containers: tenant id -> record
    containers,       \* Docker: container handle -> container
    images,           \* Docker: the image tags that exist
    nextHandle,       \* Docker: the id the next created container gets
    apis,             \* metadata store, table "apis": tenant id -> row
    rate_limit_tracking,  \* metadata store, table "rate_limit_tracking": its rows
    now,              \* the clock, in ticks
    tasks,            \* the requests in flight, by slot
    lastProbe,        \* per tenant: what the latest reload() of its container saw
    last              \* what the latest step did (its call, outcome, Docker calls)

vars == <<api_containers, containers, images, nextHandle, apis,
          rate_limit_tracking, now, tasks, lastProbe, last>>

-----------------------------------------------------------------------------
(* Bounds of the exploration *)

MaxContainers == 2      \* containers Docker creates in one run
CustomLimit == 1        \* the owner's custom_rate_limit (requests per hour)

Tenants == {"t1", "t2"}     \* the rows of table "apis"
Ghost == "ghost"            \* an id no row has
Codes == {"v1", "v2"}       \* code snapshots
NoCode == "none"            \* code_snapshot is null
TaskIds == {1, 2}           \* request slots

-----------------------------------------------------------------------------
(* Port allocator *)

\* hashlib.sha256(api_id.encode()).hexdigest(), as its 64 hex digits
Sha256Hex(api_id) ==
    CASE api_id = "t1" ->
           <<6,2,8,11,4,9,13,9,6,13,12,13,14,9,7,10,4,3,0,13,13,4,15,5,9,7,7,
             0,5,8,9,9,14,0,9,10,9,6,8,15,7,9,3,4,9,1,14,4,11,7,0,4,12,10,14,
             3,3,10,4,0,13,12,0,2>>
      [] api_id = "t2" ->
           <<12,4,4,4,7,4,0,3,8,13,4,5,9,14,4,0,14,4,7,1,4,10,15,14,15,10,7,
             11,15,8,13,10,14,9,15,9,8,3,4,11,2,2,15,5,14,8,14,12,1,13,13,4,
             3,4,14,12,11,6,2,11,5,1,2,14>>

PortBase == 9000
PortRange == 10000

\* int(digits, 16) % m, left to right
RECURSIVE HexMod(_, _, _)
HexMod(digits, m, acc) ==
    IF digits = <<>> THEN acc
    ELSE HexMod(Tail(digits), m, (acc * 16 + Head(digits)) % m)

\* int(hashlib.sha256(api_id.encode()).hexdigest(), 16) % 10000, per tenant
HashMod == [t \in Tenants |-> HexMod(Sha256Hex(t), PortRange, 0)]

\* Variant: the reduced hash itself, without the base
_get_port_for_api_NoBase(api_id) == HashMod[api_id]

_get_port_for_api(api_id) == PortBase + HashMod[api_id]

ImageTag(api_id) == <<"user-api", api_id>>

ContainerName(api_id) == <<"api", api_id>>

-----------------------------------------------------------------------------
(* Dictionaries *)

Del(f, k) == [x \in DOMAIN f \ {k} |-> f[x]]

Put(f, k, v) == [x \in DOMAIN f \cup {k} |-> IF x = k THEN v ELSE f[x]]

\* The deployer's table and Docker's state, threaded through one run of code.
World == [ac |-> api_containers, cs |-> containers, im |-> images, nh |-> nextHandle]

\* container.reload(); container.status  ("raise": the container is gone)
Reload(w, h) == IF h \in DOMAIN w.cs THEN w.cs[h].status ELSE "raise"

\* Variant: the status is compared with a string Docker never reports
IsRunning_Never(status) == status = "Running"

IsRunning(status) == status = "running"


-----------------------------------------------------------------------------
(* Docker faults.  A Docker call may fail for reasons outside the program   *)
(* (daemon error, timeout, disk full); which call fails in one run of code  *)
(* is an input of the run.                                                  *)

DeployFaults == {"none", "build", "exstop", "exremove", "run"}
StopFaults == {"none", "stop", "remove", "rmi"}

-----------------------------------------------------------------------------
(* APIDeployer.stop_api *)

\* Variant: a failure of images.remove propagates, the record stays
StopRecorded_ImageErrorRaises(w, api_id, fault) ==
    LET info == w.ac[api_id]
        h == info.container
    IN  IF h \notin DOMAIN w.cs \/ fault = "stop"
        THEN [w |-> w, out |-> "raise", ok |-> FALSE, calls |-> {"stop"}]
        ELSE LET w1 == [w EXCEPT !.cs[h].status = "stopped"]
             IN  IF fault = "remove"
                 THEN [w |-> w1, out |-> "raise", ok |-> FALSE,
                       calls |-> {"stop", "remove"}]
                 ELSE LET w2 == [w1 EXCEPT !.cs = Del(@, h)]
                      IN  IF fault = "rmi"
                          THEN [w |-> w2, out |-> "raise", ok |-> FALSE,
                                calls |-> {"stop", "remove", "rmi"}]
                          ELSE [w |-> [w2 EXCEPT !.im = @ \ {info.image},
                                                 !.ac = Del(@, api_id)],
                                out |-> "ret", ok |-> TRUE,
                                calls |-> {"stop", "remove", "rmi"}]

\* lines 200-222: the tenant has a record
StopRecorded(w, api_id, fault) ==
    LET info == w.ac[api_id]
        h == info.container
    IN  IF h \notin DOMAIN w.cs \/ fault = "stop"
        THEN \* container.stop(timeout=10) raises
             [w |-> w, out |-> "raise", ok |-> FALSE, calls |-> {"stop"}]
        ELSE LET w1 == [w EXCEPT !.cs[h].status = "stopped"]
             IN  IF fault = "remove"
                 THEN \* container.remove() raises
                      [w |-> w1, out |-> "raise", ok |-> FALSE,
                       calls |-> {"stop", "remove"}]
                 ELSE LET w2 == [w1 EXCEPT !.cs = Del(@, h)]
                          \* images.remove: a failure is logged only
                          w3 == IF fault = "rmi" THEN w2
                                ELSE [w2 EXCEPT !.im = @ \ {info.image}]
                      IN  [w |-> [w3 EXCEPT !.ac = Del(@, api_id)],
                           out |-> "ret", ok |-> TRUE,
                           calls |-> {"stop", "remove", "rmi"}]

\* Variant: the record is looked up without the membership test (KeyError)
StopApi_KeyError(w, api_id, fault) ==
    IF api_id \notin DOMAIN w.ac
    THEN [w |-> w, out |-> "raise", ok |-> FALSE, calls |-> {}]
    ELSE StopRecorded(w, api_id, fault)

StopApi(w, api_id, fault) ==
    IF api_id \notin DOMAIN w.ac
    THEN [w |-> w, out |-> "ret", ok |-> FALSE, calls |-> {}]
    ELSE StopRecorded(w, api_id, fault)

-----------------------------------------------------------------------------
(* APIDeployer.deploy_api, up to its first suspension *)

\* lines 107-115: the container that already has the name is stopped and removed
RemoveExisting(w, name, fault) ==
    LET ex == {h \in DOMAIN w.cs : w.cs[h].name = name}
    IN  IF ex = {} THEN w                           \* docker.errors.NotFound
        ELSE LET h == CHOOSE x \in ex : TRUE
             IN  IF fault = "exstop" THEN w         \* logged, goes on
                 ELSE LET w1 == [w EXCEPT !.cs[h].status = "stopped"]
                      IN  IF fault = "exremove" THEN w1
                          ELSE [w1 EXCEPT !.cs = Del(@, h)]

\* Variant: a daemon that accepts any name and any port
RunRefused_Never(w, name, host_port) == FALSE

\* Docker refuses a second container of the same name, and a host port that a
\* running container already publishes.
RunRefused(w, name, host_port) ==
    \E h \in DOMAIN w.cs :
        \/ w.cs[h].name = name
        \/ w.cs[h].status = "running" /\ w.cs[h].port = host_port

\* lines 62-150: build the image, replace the container of that name, record
\* it.  c0, pr: the calls made and the status seen before this part.
BuildAndRun(w1, api_id, code, fault, c0, pr) ==
    IF fault = "build"
    THEN [w |-> w1, out |-> "raise", port |-> 0,
          calls |-> c0 \cup {"build"}, probe |-> pr]
    ELSE
    LET image_tag == ImageTag(api_id)
        w2 == [w1 EXCEPT !.im = @ \cup {image_tag}]
        host_port == _get_port_for_api(api_id)
        container_name == ContainerName(api_id)
        w3 == RemoveExisting(w2, container_name, fault)
        c3 == c0 \cup {"build", "get"}
                 \cup (IF w3.cs # w2.cs THEN {"stop"} ELSE {})
    IN  IF fault = "run" \/ RunRefused(w3, container_name, host_port)
        THEN [w |-> w3, out |-> "raise", port |-> 0,
              calls |-> c3 \cup {"run"}, probe |-> pr]
        ELSE
        LET h == w3.nh
            c == [name |-> container_name, api_id |-> api_id,
                  port |-> host_port, code |-> code, status |-> "running"]
            w4 == [w3 EXCEPT !.cs = Put(@, h, c), !.nh = h + 1]
            rec == [container |-> h, port |-> host_port, image |-> image_tag]
        IN  [w |-> [w4 EXCEPT !.ac = Put(@, api_id, rec)],
             out |-> "started", port |-> host_port,
             calls |-> c3 \cup {"run"}, probe |-> pr]

\* Variant: no check of the record, every call builds and runs
DeployApi_NoShortCircuit(w, api_id, code, fault) ==
    LET had == api_id \in DOMAIN w.ac
        pr == IF had THEN Reload(w, w.ac[api_id].container) ELSE "none"
    IN  BuildAndRun(IF had THEN [w EXCEPT !.ac = Del(@, api_id)] ELSE w,
                    api_id, code, fault, IF had THEN {"reload"} ELSE {}, pr)

\* Variant: the record of a container that is not running is left in the table
DeployApi_KeepsStaleRecord(w, api_id, code, fault) ==
    LET had == api_id \in DOMAIN w.ac
        pr == IF had THEN Reload(w, w.ac[api_id].container) ELSE "none"
        c0 == IF had THEN {"reload"} ELSE {}
    IN  IF had /\ IsRunning(pr)
        THEN [w |-> w, out |-> "short", port |-> w.ac[api_id].port,
              calls |-> c0, probe |-> pr]
        ELSE BuildAndRun(w, api_id, code, fault, c0, pr)

\* lines 48-60, then the rest: a record whose container is running ends the
\* call; a record whose container is not is deleted first
DeployApi(w, api_id, code, fault) ==
    LET had == api_id \in DOMAIN w.ac
        pr == IF had THEN Reload(w, w.ac[api_id].container) ELSE "none"
        c0 == IF had THEN {"reload"} ELSE {}
    IN  IF had /\ IsRunning(pr)
        THEN [w |-> w, out |-> "short", port |-> w.ac[api_id].port,
              calls |-> c0, probe |-> pr]
        ELSE BuildAndRun(IF had THEN [w EXCEPT !.ac = Del(@, api_id)] ELSE w,
                         api_id, code, fault, c0, pr)

\* Variant: restart without its stop step
RestartApi_NoStop(w, api_id, code, f1, f2) ==
    LET d == DeployApi(w, api_id, code, f2)
    IN  [w |-> d.w, out |-> d.out, port |-> d.port, calls |-> d.calls,
         probe |-> d.probe, stop |-> "none"]

\* Variant: a failure of the stop step is swallowed and the deploy step runs
RestartApi_DeploysAnyway(w, api_id, code, f1, f2) ==
    LET s == StopApi(w, api_id, f1)
        d == DeployApi(s.w, api_id, code, f2)
    IN  [w |-> d.w, out |-> d.out, port |-> d.port,
         calls |-> s.calls \cup d.calls, probe |-> d.probe, stop |-> s.out]

\* APIDeployer.restart_api, up to its first suspension
RestartApi(w, api_id, code, f1, f2) ==
    LET s == StopApi(w, api_id, f1)
    IN  IF s.out = "raise"
        THEN [w |-> s.w, out |-> "raise", port |-> 0, calls |-> s.calls,
              probe |-> "none", stop |-> "raise"]
        ELSE LET d == DeployApi(s.w, api_id, code, f2)
             IN  [w |-> d.w, out |-> d.out, port |-> d.port,
                  calls |-> s.calls \cup d.calls, probe |-> d.probe,
                  stop |-> "ret"]

\* The faults that can occur in a call: those of the Docker calls it makes.
StopFaultsOf(w, api_id) ==
    IF api_id \in DOMAIN w.ac THEN StopFaults ELSE {"none"}

DeployFaultsOf(w, api_id) ==
    IF api_id \in DOMAIN w.ac /\ IsRunning(Reload(w, w.ac[api_id].container))
    THEN {"none"}
    ELSE {"none", "build", "run"} \cup
         (IF \E h \in DOMAIN w.cs : w.cs[h].name = ContainerName(api_id)
          THEN {"exstop", "exremove"} ELSE {})

RestartFaultsOf(w, api_id) ==
    {f \in StopFaultsOf(w, api_id) \X DeployFaults :
        LET s == StopApi(w, api_id, f[1])
        IN  IF s.out = "raise" THEN f[2] = "none"
            ELSE f[2] \in DeployFaultsOf(s.w, api_id)}

\* APIDeployer.get_api_port (0: None)
get_api_port(w, api_id) ==
    IF api_id \in DOMAIN w.ac THEN w.ac[api_id].port ELSE 0

\* Variant: a record is taken for a live deployment, its container not probed
is_api_deployed_RecordOnly(w, api_id) == api_id \in DOMAIN w.ac

\* APIDeployer.is_api_deployed
is_api_deployed(w, api_id) ==
    IF api_id \notin DOMAIN w.ac THEN FALSE
    ELSE IsRunning(Reload(w, w.ac[api_id].container))

\* APIDeployer.get_api_health: the status it reports
get_api_health(w, api_id) ==
    IF api_id \notin DOMAIN w.ac THEN "not_deployed"
    ELSE LET status == Reload(w, w.ac[api_id].container)
         IN  IF status = "raise" THEN "error" ELSE status

\* APIDeployer.cleanup_stopped_containers: first the probes, then the stops
ToRemove(w) ==
    {t \in DOMAIN w.ac : ~IsRunning(Reload(w, w.ac[t].container))}

\* Variant: no try around the stop, its failure ends the sweep
RECURSIVE CleanupLoop_Propagates(_, _, _)
CleanupLoop_Propagates(w, to_remove, faults) ==
    IF to_remove = {} THEN [w |-> w, out |-> "ret", caught |-> {}]
    ELSE LET api_id == CHOOSE t \in to_remove : TRUE
             s == StopApi(w, api_id, faults[api_id])
         IN  IF s.out = "raise"
             THEN [w |-> s.w, out |-> "raise", caught |-> {}]
             ELSE CleanupLoop_Propagates(s.w, to_remove \ {api_id}, faults)

\* lines 298-304.  caught: the tenants whose stop raised
RECURSIVE CleanupLoop(_, _, _)
CleanupLoop(w, to_remove, faults) ==
    IF to_remove = {} THEN [w |-> w, out |-> "ret", caught |-> {}]
    ELSE LET api_id == CHOOSE t \in to_remove : TRUE
             s == StopApi(w, api_id, faults[api_id])
             w1 == IF s.out = "raise" /\ api_id \in DOMAIN s.w.ac
                   THEN [s.w EXCEPT !.ac = Del(@, api_id)]
                   ELSE s.w
             r == CleanupLoop(w1, to_remove \ {api_id}, faults)
         IN  [r EXCEPT !.caught = @ \cup
                          (IF s.out = "raise" THEN {api_id} ELSE {})]

CleanupStopped(w, faults) == CleanupLoop(w, ToRemove(w), faults)

CleanupFaultsOf(w) ==
    {fs \in [Tenants -> StopFaults] : \A t \in Tenants \ ToRemove(w) : fs[t] = "none"}

-----------------------------------------------------------------------------
(* The metadata store *)

AdminKey == "admin-secret-key-change-in-production"

KeyOf(t) == "sk-" \o t

Owner == "u1"

\* table "users"
users == [u \in {Owner} |-> [plan |-> "free", custom_rate_limit |-> CustomLimit]]

\* An Authorization header: None, or a scheme and what follows it
None == << >>
Bearer(key) == <<"Bearer ", key>>

AuthHeaders ==
    {None, Bearer(""), Bearer(AdminKey)} \cup {Bearer(KeyOf(t)) : t \in Tenants}

\* settings.rate_limit_free, rate_limit_pro, rate_limit_enterprise
rate_limit_free == 100
rate_limit_pro == 1000
rate_limit_enterprise == 10000

TIER_LIMITS == [free |-> rate_limit_free, pro |-> rate_limit_pro,
                enterprise |-> rate_limit_enterprise]

TicksPerHour == 2

\* Variant: the clock as it is, nothing cleared
get_current_window_start_Untruncated(clock) == clock

\* get_current_window_start: the clock with minutes and seconds cleared
get_current_window_start(clock) == clock - (clock % TicksPerHour)

Max(a, b) == IF a >= b THEN a ELSE b

\* the positions of the rows select(...).eq(user_id).eq(window_start) returns
Matching(rows, user_id, window_start) ==
    {n \in 1..Len(rows) : /\ rows[n].user_id = user_id
                          /\ rows[n].window_start = window_start}

First(S) == CHOOSE n \in S : \A m \in S : n <= m

\* A call of the store may fail (unreachable, timeout); whether the calls of
\* one run of check_rate_limit or increment_rate_limit fail is an input of it.
StoreFaults == {"none", "store"}

\* TIER_LIMITS.get(user_plan, TIER_LIMITS['free'])
PlanLimit(user_plan) ==
    IF user_plan \in DOMAIN TIER_LIMITS THEN TIER_LIMITS[user_plan]
    ELSE TIER_LIMITS["free"]

\* Variant: the override of the account is not looked at
LimitFor_IgnoresOverride(user_plan, custom_rate_limit) == PlanLimit(user_plan)

\* the limit the check uses: the account's override when it has one (0: None)
LimitFor(user_plan, custom_rate_limit) ==
    IF custom_rate_limit # 0 THEN custom_rate_limit
    ELSE PlanLimit(user_plan)

\* the request_count the select of the current window returns, 0 without a row
CurrentCount(rows, user_id, window_start) ==
    LET found == Matching(rows, user_id, window_start)
    IN  IF found # {} THEN rows[First(found)].request_count ELSE 0

\* Variant: a request is allowed while the count is at most the limit
CheckWindow_AtLimit(rows, clock, user_id, limit) ==
    LET window_start == get_current_window_start(clock)
        found == Matching(rows, user_id, window_start)
        current_count == CurrentCount(rows, user_id, window_start)
        rows1 == IF found # {} THEN rows
                 ELSE Append(rows, [user_id |-> user_id,
                                    window_start |-> window_start,
                                    request_count |-> 0])
    IN  [rows |-> rows1,
         is_allowed |-> current_count <= limit,
         limit |-> limit,
         remaining |-> Max(0, limit - current_count),
         reset |-> window_start + TicksPerHour,
         current |-> current_count]

\* lines 35-69: the try block, with the limit to compare with
CheckWindow(rows, clock, user_id, limit) ==
    LET window_start == get_current_window_start(clock)
        found == Matching(rows, user_id, window_start)
        current_count == CurrentCount(rows, user_id, window_start)
        rows1 == IF found # {} THEN rows
                 ELSE Append(rows, [user_id |-> user_id,
                                    window_start |-> window_start,
                                    request_count |-> 0])
    IN  [rows |-> rows1,
         is_allowed |-> current_count < limit,
         limit |-> limit,
         remaining |-> Max(0, limit - current_count),
         reset |-> window_start + TicksPerHour,
         current |-> current_count]

\* lines 71-79: except Exception, the request is allowed (fail open)
FailOpen(rows, clock, user_plan) ==
    [rows |-> rows, is_allowed |-> TRUE, limit |-> PlanLimit(user_plan),
     remaining |-> 0,
     reset |-> get_current_window_start(clock) + TicksPerHour,
     current |-> 0]

\* Variant: a failure of the store refuses the request
check_rate_limit_FailClosed(rows, clock, user_id, user_plan, custom_rate_limit, fault) ==
    IF fault = "store"
    THEN [FailOpen(rows, clock, user_plan) EXCEPT !.is_allowed = FALSE]
    ELSE CheckWindow(rows, clock, user_id,
                     LimitFor(user_plan, custom_rate_limit))

check_rate_limit(rows, clock, user_id, user_plan, custom_rate_limit, fault) ==
    IF fault = "store"
    THEN FailOpen(rows, clock, user_plan)
    ELSE CheckWindow(rows, clock, user_id,
                     LimitFor(user_plan, custom_rate_limit))

\* Variant: the row of the window is never looked up, every call inserts one
increment_rate_limit_AlwaysInserts(rows, clock, user_id, fault) ==
    IF fault = "store" THEN rows
    ELSE Append(rows, [user_id |-> user_id,
                       window_start |-> get_current_window_start(clock),
                       request_count |-> 1])

\* Variant: a request counts twice
increment_rate_limit_ByTwo(rows, clock, user_id, fault) ==
    LET window_start == get_current_window_start(clock)
        found == Matching(rows, user_id, window_start)
    IN  IF fault = "store" THEN rows
        ELSE IF found # {}
        THEN [rows EXCEPT ![First(found)].request_count = @ + 2]
        ELSE Append(rows, [user_id |-> user_id, window_start |-> window_start,
                           request_count |-> 2])

increment_rate_limit(rows, clock, user_id, fault) ==
    LET window_start == get_current_window_start(clock)
        found == Matching(rows, user_id, window_start)
    IN  IF fault = "store" THEN rows        \* except Exception: printed only
        ELSE IF found # {}
        THEN [rows EXCEPT ![First(found)].request_count = @ + 1]
        ELSE Append(rows, [user_id |-> user_id, window_start |-> window_start,
                           request_count |-> 1])

\* Variant: the row is looked up by id alone
verify_api_key_AnyKey(api_id, api_key) == api_id \in DOMAIN apis

\* auth.verify_api_key: the row of that id with that key, if there is one
verify_api_key(api_id, api_key) ==
    api_id \in DOMAIN apis /\ apis[api_id].api_key = api_key

-----------------------------------------------------------------------------
(* Requests in flight, and the record of the latest step *)

max_retries == 30

\* limit, remaining, reset, current: the rate_limit_info the request got from
\* its check
Idle == [pc |-> "idle", op |-> "none", api_id |-> "none", code |-> NoCode,
         i |-> 0, port |-> 0, built |-> FALSE, remaining |-> 0, limit |-> 0,
         reset |-> 0, current |-> 0]

\* what check_rate_limit told the handler, before it has told anything
NoInfo == [is_allowed |-> FALSE, limit |-> 0, remaining |-> 0, reset |-> 0,
           current |-> 0]

\* op: the handler or loop that ran;  out: how the deployer call in it ended
\* ("none": no call, "ret", "raise", "suspend": it reached the health poll);
\* stop: how the stop_api call in it ended;  fault: the Docker fault given to
\* stop_api;  status: the HTTP status answered in this step (0: no answer yet);
\* key: the API key of the request;  steps: the steps of the proxy handler that
\* ran;  body: the keys of the JSON body answered;  rl: the rate_limit_info
\* of the check (of a forward step: the X-RateLimit headers of its response);
\* store: the store fault given to the rate limiter;  user_id, plan, custom:
\* the arguments of a direct call of the rate limiter;  error_type, tips: the
\* error_type and the troubleshooting list of the body answered;  logfault:
\* the store fault given to log_api_usage
NoStep == [op |-> "init", api_id |-> "none", task |-> 0, out |-> "none",
           status |-> 0, error |-> "", port |-> 0, ok |-> FALSE, calls |-> {},
           probe |-> "none", had |-> FALSE, code |-> NoCode, i |-> 0,
           slept |-> FALSE, top |-> "none", logs |-> << >>, stop |-> "none",
           fault |-> "none", key |-> "", steps |-> << >>, body |-> {},
           rl |-> NoInfo, store |-> "none", user_id |-> "", plan |-> "",
           custom |-> 0, error_type |-> "", tips |-> << >>,
           logfault |-> "none"]

Seen(status) == IF IsRunning(status) THEN "running" ELSE "notrunning"

\* what the reload() inside deploy_api saw, and the start of a container
ProbedByDeploy(api_id, d) ==
    [lastProbe EXCEPT ![api_id] =
        IF d.out = "started" THEN "running"
        ELSE IF d.probe = "none" THEN @ ELSE Seen(d.probe)]

SetWorld(w) ==
    /\ w.nh <= MaxContainers + 1
    /\ api_containers' = w.ac
    /\ containers' = w.cs
    /\ images' = w.im
    /\ nextHandle' = w.nh

SameWorld == UNCHANGED <<api_containers, containers, images, nextHandle>>

Polling(k, op, api_id, code, d) ==
    [Idle EXCEPT !.pc = "poll", !.op = op, !.api_id = api_id, !.code = code,
                 !.port = d.port, !.built = TRUE]

OutOf(d) == CASE d.out = "started" -> "suspend"
              [] d.out = "short" -> "ret"
              [] OTHER -> "raise"

TypeOK ==
    /\ DOMAIN api_containers \subseteq Tenants
    /\ DOMAIN containers \subseteq 1..(nextHandle - 1)
    /\ images \subseteq {ImageTag(t) : t \in Tenants}
    /\ nextHandle \in 1..(MaxContainers + 1)
    /\ \A k \in TaskIds : tasks[k].pc \in {"idle", "poll", "forward"}
    /\ \A t \in Tenants : lastProbe[t] \in {"none", "running", "notrunning"}

Init ==
    /\ api_containers = << >>
    /\ containers = << >>
    /\ images = {}
    /\ nextHandle = 1
    /\ apis = [t \in Tenants |->
                 [status |-> "active", api_key |-> KeyOf(t), user_id |-> Owner,
                  code_snapshot |-> IF t = "t1" THEN "v1" ELSE NoCode]]
    /\ rate_limit_tracking = << >>
    /\ now = 0
    /\ tasks = [k \in TaskIds |-> Idle]
    /\ lastProbe = [t \in Tenants |-> "none"]
    /\ last = NoStep

-----------------------------------------------------------------------------
(* The admin handlers of main.py *)

IsAdmin(authorization) == authorization = Bearer(AdminKey)

\* Variant: the detail is answered under the key "error"
DetailBody_AsError == {"error"}

\* the body of an HTTPException as the framework renders it: its detail,
\* under the key "detail"
DetailBody == {"detail"}

\* what the admin handlers answer with status 200
SuccessBody(op) ==
    CASE op = "deploy" -> {"success", "message", "port"}
      [] op = "health" -> {"success", "api_id", "health"}
      [] op = "cleanup" -> {"success", "message", "remaining_deployments"}
      [] op = "reload_all" -> {"success", "deployed_apis", "message"}
      [] op = "deploy_route" -> {"success", "apiId", "status", "port", "message"}
      [] OTHER -> {"success", "message"}

\* the keys of the JSON body answered with a status by an admin handler
AdminBody(op, status) ==
    IF status = 0 THEN {}
    ELSE IF status = 200 THEN SuccessBody(op)
    ELSE DetailBody

Refused(op, api_id) ==
    /\ last' = [NoStep EXCEPT !.op = op, !.status = 401, !.error = "Unauthorized",
                  !.body = AdminBody(op, 401)]
    /\ SameWorld
    /\ UNCHANGED <<apis, rate_limit_tracking, now, tasks, lastProbe>>

\* What start_deployment and reload_single_api do with the result d of their
\* deployer call: 500 on a raise, 200 on a return, nothing yet at the poll.
Deployed(k, op, api_id, code, d) ==
    /\ SetWorld(d.w)
    /\ lastProbe' = ProbedByDeploy(api_id, d)
    /\ tasks' = [tasks EXCEPT ![k] =
          IF d.out = "started" THEN Polling(k, op, api_id, code, d) ELSE @]
    /\ last' = [NoStep EXCEPT !.op = op, !.api_id = api_id, !.task = k,
                  !.out = OutOf(d), !.port = d.port, !.calls = d.calls,
                  !.probe = d.probe, !.code = code,
                  !.stop = IF op = "restart" THEN d.stop ELSE "none",
                  !.had = (api_id \in DOMAIN api_containers),
                  !.status = CASE d.out = "started" -> 0
                               [] d.out = "short" -> 200
                               [] OTHER -> 500,
                  !.body = AdminBody(op, CASE d.out = "started" -> 0
                                           [] d.out = "short" -> 200
                                           [] OTHER -> 500)]
    /\ UNCHANGED <<apis, rate_limit_tracking, now>>

\* The row is missing (single() raises) or has no code (the 404 raised inside
\* the try is caught by its except Exception): 500, nothing called.
NothingToDeploy(op, api_id) ==
    /\ last' = [NoStep EXCEPT !.op = op, !.api_id = api_id, !.status = 500,
                  !.error = IF api_id \in DOMAIN apis THEN "API not found"
                            ELSE "no rows",
                  !.body = AdminBody(op, 500)]
    /\ SameWorld
    /\ UNCHANGED <<apis, rate_limit_tracking, now, tasks, lastProbe>>

\* POST /admin/deployment/{api_id}/start
start_deployment(k, api_id, authorization, fault) ==
    /\ tasks[k].pc = "idle"
    /\ IF ~IsAdmin(authorization) THEN fault = "none" /\ Refused("deploy", api_id)
       ELSE IF api_id \notin DOMAIN apis \/ apis[api_id].code_snapshot = NoCode
       THEN fault = "none" /\ NothingToDeploy("deploy", api_id)
       ELSE LET code == apis[api_id].code_snapshot
            IN  /\ fault \in DeployFaultsOf(World, api_id)
                /\ Deployed(k, "deploy", api_id, code,
                            DeployApi(World, api_id, code, fault))

\* POST /admin/reload/{api_id}
reload_single_api(k, api_id, authorization, f1, f2) ==
    /\ tasks[k].pc = "idle"
    /\ IF ~IsAdmin(authorization)
       THEN f1 = "none" /\ f2 = "none" /\ Refused("restart", api_id)
       ELSE IF api_id \notin DOMAIN apis \/ apis[api_id].code_snapshot = NoCode
       THEN f1 = "none" /\ f2 = "none" /\ NothingToDeploy("restart", api_id)
       ELSE LET code == apis[api_id].code_snapshot
            IN  /\ <<f1, f2>> \in RestartFaultsOf(World, api_id)
                /\ Deployed(k, "restart", api_id, code,
                            RestartApi(World, api_id, code, f1, f2))

\* POST /admin/deployment/{api_id}/stop.  The 404 for "not found" is raised
\* inside the try and caught by its except Exception, which answers 500.
stop_deployment(api_id, authorization, fault) ==
    IF ~IsAdmin(authorization) THEN fault = "none" /\ Refused("stop", api_id)
    ELSE LET s == StopApi(World, api_id, fault)
         IN  /\ fault \in StopFaultsOf(World, api_id)
             /\ SetWorld(s.w)
             /\ last' = [NoStep EXCEPT !.op = "stop", !.api_id = api_id,
                           !.out = s.out, !.ok = s.ok, !.calls = s.calls,
                           !.stop = s.out, !.fault = fault,
                           !.had = (api_id \in DOMAIN api_containers),
                           !.status = IF s.out = "ret" /\ s.ok THEN 200 ELSE 500,
                           !.body = AdminBody("stop", IF s.out = "ret" /\ s.ok
                                                      THEN 200 ELSE 500)]
             /\ UNCHANGED <<apis, rate_limit_tracking, now, tasks, lastProbe>>

\* GET /admin/deployment/{api_id}: probes the container, changes nothing
get_deployment_status(api_id, authorization) ==
    IF ~IsAdmin(authorization) THEN Refused("health", api_id)
    ELSE /\ last' = [NoStep EXCEPT !.op = "health", !.api_id = api_id,
                       !.status = 200, !.out = "ret",
                       !.body = AdminBody("health", 200),
                       !.had = (api_id \in DOMAIN api_containers),
                       !.probe = get_api_health(World, api_id)]
         /\ lastProbe' = [t \in Tenants |->
               IF t = api_id /\ t \in DOMAIN api_containers
               THEN Seen(Reload(World, api_containers[t].container))
               ELSE lastProbe[t]]
         /\ SameWorld
         /\ UNCHANGED <<apis, rate_limit_tracking, now, tasks>>

\* POST /admin/cleanup
cleanup_containers(authorization, faults) ==
    IF ~IsAdmin(authorization)
    THEN (\A t \in Tenants : faults[t] = "none") /\ Refused("cleanup", "none")
    ELSE LET c == CleanupStopped(World, faults)
         IN  /\ faults \in CleanupFaultsOf(World)
             /\ SetWorld(c.w)
             /\ lastProbe' = [t \in Tenants |->
                   IF t \in DOMAIN api_containers
                   THEN Seen(Reload(World, api_containers[t].container))
                   ELSE lastProbe[t]]
             /\ last' = [NoStep EXCEPT !.op = "cleanup", !.out = c.out,
                           !.had = (ToRemove(World) # {}),
                           !.stop = IF c.caught # {} THEN "raise"
                                    ELSE IF ToRemove(World) # {} THEN "ret"
                                    ELSE "none",
                           !.status = IF c.out = "ret" THEN 200 ELSE 500,
                           !.body = AdminBody("cleanup", IF c.out = "ret"
                                                         THEN 200 ELSE 500)]
             /\ UNCHANGED <<apis, rate_limit_tracking, now, tasks>>

\* lastProbe after a reload() of every recorded container
ProbedAll ==
    [t \in Tenants |->
        IF t \in DOMAIN api_containers
        THEN Seen(Reload(World, api_containers[t].container))
        ELSE lastProbe[t]]

\* GET /metrics: counters of the gateway process
get_metrics(authorization) ==
    IF ~IsAdmin(authorization) THEN Refused("metrics", "none")
    ELSE /\ last' = [NoStep EXCEPT !.op = "metrics", !.status = 200,
                       !.out = "ret",
                       !.body = {"uptime_seconds", "total_requests",
                                 "total_errors", "timestamp"}]
         /\ SameWorld
         /\ UNCHANGED <<apis, rate_limit_tracking, now, tasks, lastProbe>>

\* GET /admin/deployments: get_deployed_apis probes every recorded container
list_deployments(authorization) ==
    IF ~IsAdmin(authorization) THEN Refused("list", "none")
    ELSE /\ last' = [NoStep EXCEPT !.op = "list", !.status = 200, !.out = "ret",
                       !.had = (DOMAIN api_containers # {}),
                       !.calls = IF DOMAIN api_containers # {}
                                 THEN {"reload"} ELSE {},
                       !.body = {"success", "deployments"}]
         /\ lastProbe' = ProbedAll
         /\ SameWorld
         /\ UNCHANGED <<apis, rate_limit_tracking, now, tasks>>

\* the rows POST /admin/reload restarts: active, with code
ToReload ==
    {t \in Tenants : apis[t].status = "active" /\ apis[t].code_snapshot # NoCode}

\* POST /admin/reload, lines 237-266, for a store in which at most one tenant
\* is active and has code: restart_api for it, a raise is logged only
reload_apis(k, authorization, f1, f2) ==
    /\ tasks[k].pc = "idle"
    /\ Cardinality(ToReload) <= 1
    /\ IF ~IsAdmin(authorization)
       THEN f1 = "none" /\ f2 = "none" /\ Refused("reload_all", "none")
       ELSE IF ToReload = {}
       THEN /\ f1 = "none" /\ f2 = "none"
            /\ last' = [NoStep EXCEPT !.op = "reload_all", !.status = 200,
                          !.out = "ret", !.body = AdminBody("reload_all", 200)]
            /\ SameWorld
            /\ UNCHANGED <<apis, rate_limit_tracking, now, tasks, lastProbe>>
       ELSE LET api_id == CHOOSE t \in ToReload : TRUE
                code == apis[api_id].code_snapshot
                d == RestartApi(World, api_id, code, f1, f2)
            IN  /\ <<f1, f2>> \in RestartFaultsOf(World, api_id)
                /\ SetWorld(d.w)
                /\ lastProbe' = ProbedByDeploy(api_id, d)
                /\ tasks' = [tasks EXCEPT ![k] =
                      IF d.out = "started"
                      THEN Polling(k, "reload_all", api_id, code, d) ELSE @]
                /\ last' = [NoStep EXCEPT
                      !.op = "reload_all", !.api_id = api_id, !.task = k,
                      !.out = OutOf(d), !.port = d.port, !.calls = d.calls,
                      !.probe = d.probe, !.code = code, !.stop = d.stop,
                      !.had = (api_id \in DOMAIN api_containers),
                      !.status = IF d.out = "started" THEN 0 ELSE 200,
                      !.body = AdminBody("reload_all",
                                         IF d.out = "started" THEN 0 ELSE 200)]
                /\ UNCHANGED <<apis, rate_limit_tracking, now>>

\* the key of an Authorization header ("": no header, or no Bearer scheme)
Credential(authorization) ==
    IF authorization # None /\ authorization[1] = "Bearer "
    THEN authorization[2] ELSE ""

\* what GET /api/diagnostics/{api_id} answers about a tenant with a record
DeployedDiagnostics(status) ==
    IF status = "raise" THEN {"container_error"}
    ELSE {"container_status", "port", "image", "recent_logs"}

\* GET /api/diagnostics/{api_id}, lines 175-225: the handler takes no
\* Authorization header and compares none; it probes the recorded container
\* and answers its status, port, image tag and the last lines of its log
get_api_diagnostics(api_id, authorization) ==
    LET is_deployed == api_id \in DOMAIN api_containers
        status == IF is_deployed
                  THEN Reload(World, api_containers[api_id].container)
                  ELSE "none"
    IN  /\ last' = [NoStep EXCEPT
              !.op = "diagnostics", !.api_id = api_id,
              !.key = Credential(authorization), !.status = 200,
              !.out = "ret", !.had = is_deployed, !.probe = status,
              !.calls = IF is_deployed THEN {"reload"} ELSE {},
              !.port = IF is_deployed /\ status # "raise"
                       THEN api_containers[api_id].port ELSE 0,
              !.body = {"api_id", "is_deployed", "timestamp"}
                         \cup (IF is_deployed THEN DeployedDiagnostics(status)
                               ELSE {"message"})
                         \cup (IF api_id \in DOMAIN apis THEN {"api_info"}
                               ELSE {"database_error"})]
        /\ lastProbe' = [lastProbe EXCEPT ![api_id] =
                           IF is_deployed THEN Seen(status) ELSE @]
        /\ SameWorld
        /\ UNCHANGED <<apis, rate_limit_tracking, now, tasks>>

-----------------------------------------------------------------------------
(* POST /deploy-api of routes/deployment.py *)

\* the accounts a token resolves to; NoUser: verify_token raises 401
Users == {Owner, "u2"}
NoUser == "none"

\* lines 49-52: the row of the tenant is marked active once deploy_api has
\* returned
MarkedActive(api_id) == [apis EXCEPT ![api_id].status = "active"]

\* a request of the route ends without a deploy: status and nothing changed
RouteRefused(api_id, status, error) ==
    /\ last' = [NoStep EXCEPT !.op = "deploy_route", !.api_id = api_id,
                  !.status = status, !.error = error, !.body = DetailBody]
    /\ SameWorld
    /\ UNCHANGED <<apis, rate_limit_tracking, now, tasks, lastProbe>>

\* the handler of the route, lines 18-74, up to the health poll of the deploy:
\* the row is read by id and owner, its code handed to APIDeployer.deploy_api
deploy_api(k, api_id, user_id, fault) ==
    /\ tasks[k].pc = "idle"
    /\ IF user_id = NoUser
       THEN fault = "none" /\ RouteRefused(api_id, 401, "Invalid token")
       ELSE IF api_id \notin DOMAIN apis \/ apis[api_id].user_id # user_id
       THEN fault = "none" /\ RouteRefused(api_id, 404, "API not found")
       ELSE IF apis[api_id].code_snapshot = NoCode
       THEN fault = "none"
            /\ RouteRefused(api_id, 400, "API has no code to deploy")
       ELSE LET code == apis[api_id].code_snapshot
                d == DeployApi(World, api_id, code, fault)
                status == CASE d.out = "started" -> 0
                            [] d.out = "short" -> 200
                            [] OTHER -> 500
            IN  /\ fault \in DeployFaultsOf(World, api_id)
                /\ SetWorld(d.w)
                /\ lastProbe' = ProbedByDeploy(api_id, d)
                /\ tasks' = [tasks EXCEPT ![k] =
                      IF d.out = "started"
                      THEN Polling(k, "deploy_route", api_id, code, d) ELSE @]
                /\ apis' = IF d.out = "short" THEN MarkedActive(api_id) ELSE apis
                /\ last' = [NoStep EXCEPT
                      !.op = "deploy_route", !.api_id = api_id, !.task = k,
                      !.out = OutOf(d), !.port = d.port, !.calls = d.calls,
                      !.probe = d.probe, !.code = code, !.user_id = user_id,
                      !.had = (api_id \in DOMAIN api_containers),
                      !.status = status,
                      !.error = IF status = 500 THEN "Failed to deploy API"
                                ELSE "",
                      !.body = AdminBody("deploy_route", status)]
                /\ UNCHANGED <<rate_limit_tracking, now>>

-----------------------------------------------------------------------------
(* The health poll of deploy_api, lines 156-171 *)

\* whether something answers on the port
Listening(port) ==
    \E h \in DOMAIN containers :
        containers[h].status = "running" /\ containers[h].port = port

ProbeOutcomes == {"ok", "bad", "exc"}

\* Variant: the loop goes on until a probe succeeds
PollResult_NeverGivesUp(i, outcome) ==
    [done |-> outcome = "ok", slept |-> outcome = "exc"]

\* One pass of the loop body, pass i of 0..max_retries-1: the probe and, after
\* an exception, the sleep.  outcome: "ok" (status 200 or 404), "bad" (another
\* status), "exc" (the request raised).
PollResult(i, outcome) ==
    CASE outcome = "ok" -> [done |-> TRUE, slept |-> FALSE]
      [] outcome = "bad" -> [done |-> i + 1 >= max_retries, slept |-> FALSE]
      [] OTHER -> IF i < max_retries - 1
                  THEN [done |-> FALSE, slept |-> TRUE]
                  ELSE [done |-> TRUE, slept |-> FALSE]

\* deploy_api returns host_port when the loop ends; the admin handlers answer
\* 200 with it, the route POST /deploy-api marks the row active and answers
\* 200, the proxy handler goes on to forward the request.
PollStep(k, outcome) ==
    /\ tasks[k].pc = "poll"
    /\ Listening(tasks[k].port) \/ outcome = "exc"
    /\ LET t == tasks[k]
           r == PollResult(t.i, outcome)
       IN  /\ tasks' = [tasks EXCEPT ![k] =
                 IF ~r.done THEN [t EXCEPT !.i = t.i + 1]
                 ELSE IF t.op = "gateway" THEN [t EXCEPT !.pc = "forward", !.i = 0]
                 ELSE Idle]
           /\ last' = [NoStep EXCEPT !.op = "poll", !.top = t.op,
                         !.api_id = t.api_id, !.task = k, !.port = t.port,
                         !.code = t.code, !.i = t.i + 1, !.slept = r.slept,
                         !.probe = outcome,
                         !.out = IF ~r.done THEN "suspend" ELSE "ret",
                         !.status = IF r.done /\ t.op # "gateway" THEN 200 ELSE 0,
                         !.body = IF r.done /\ t.op # "gateway"
                                  THEN AdminBody(t.op, 200) ELSE {}]
           /\ apis' = IF r.done /\ t.op = "deploy_route"
                      THEN MarkedActive(t.api_id) ELSE apis
    /\ SameWorld
    /\ UNCHANGED <<rate_limit_tracking, now, lastProbe>>

-----------------------------------------------------------------------------
(* The proxy handler of main.py, /run/{api_id} *)

\* the steps of the handler, in the order of its code
Stages == <<"auth", "rate", "status", "ensure">>

Upto(n) == SubSeq(Stages, 1, n)

\* the keys of the JSON bodies the handler builds itself
ErrorBody == {"error"}
LimitBody == {"error", "limit", "reset"}
ExecutionBody == {"error", "error_type", "message", "request_id", "troubleshooting"}

\* Variant: an unknown tenant gets an answer of its own
AuthFailure_TellsUnknown(api_id, api_key) ==
    IF api_key = ""
    THEN "Missing API key. Include 'Authorization: Bearer YOUR_API_KEY' header"
    ELSE IF api_id \notin DOMAIN apis THEN "API not found"
    ELSE "Invalid API key"

\* lines 405-420: the error of the 401 answered to a request whose key is
\* missing or was not verified
AuthFailure(api_id, api_key) ==
    IF api_key = ""
    THEN "Missing API key. Include 'Authorization: Bearer YOUR_API_KEY' header"
    ELSE "Invalid API key or API not found"

\* Variant: only the status "error" keeps a request from its tenant
IsActive_NotError(status) == status # "error"

\* line 450
IsActive(status) == status = "active"

\* a step of the handler for api_id, given that key, that got as far as stage n
GatewayStep(api_id, api_key, n) ==
    [NoStep EXCEPT !.op = "gateway", !.api_id = api_id, !.key = api_key,
                   !.steps = Upto(n)]

\* the handler answers with the step g and is done
Answer(g, fault) ==
    /\ fault = "none"
    /\ last' = g
    /\ SameWorld
    /\ UNCHANGED <<apis, now, tasks, lastProbe>>

\* lines 456-482, for a request that passed the checks before them; g: the
\* step so far
EnsureDeployed(k, api_id, rl, g, fault) ==
    LET port == get_api_port(World, api_id)
        had == api_id \in DOMAIN api_containers
        seen == IF had THEN Reload(World, api_containers[api_id].container)
                ELSE "none"
        code == apis[api_id].code_snapshot
    IN  IF port # 0 /\ is_api_deployed(World, api_id)
        THEN /\ fault = "none"
             /\ tasks' = [tasks EXCEPT ![k] =
                   [Idle EXCEPT !.pc = "forward", !.op = "gateway",
                                !.api_id = api_id, !.port = port,
                                !.remaining = rl.remaining,
                                !.limit = rl.limit, !.reset = rl.reset,
                                !.current = rl.current]]
             /\ lastProbe' = [lastProbe EXCEPT ![api_id] = Seen(seen)]
             /\ last' = [g EXCEPT !.task = k, !.port = port, !.had = had,
                                  !.probe = seen, !.calls = {"reload"}]
             /\ SameWorld
        ELSE IF code = NoCode
        THEN /\ fault = "none"
             /\ last' = [g EXCEPT !.status = 503, !.error = "API code not found",
                           !.body = ErrorBody,
                           !.had = had, !.probe = seen,
                           !.calls = IF had THEN {"reload"} ELSE {}]
             /\ lastProbe' = [lastProbe EXCEPT ![api_id] =
                                IF had THEN Seen(seen) ELSE @]
             /\ SameWorld
             /\ UNCHANGED tasks
        ELSE LET d == DeployApi(World, api_id, code, fault)
             IN  /\ fault \in DeployFaultsOf(World, api_id)
                 /\ SetWorld(d.w)
                 /\ lastProbe' = ProbedByDeploy(api_id, d)
                 /\ tasks' = [tasks EXCEPT ![k] =
                       CASE d.out = "started" ->
                              [Polling(k, "gateway", api_id, code, d)
                                  EXCEPT !.remaining = rl.remaining,
                                         !.limit = rl.limit,
                                         !.reset = rl.reset,
                                         !.current = rl.current]
                         [] d.out = "short" ->
                              [Idle EXCEPT !.pc = "forward", !.op = "gateway",
                                           !.api_id = api_id, !.port = d.port,
                                           !.remaining = rl.remaining,
                                           !.limit = rl.limit,
                                           !.reset = rl.reset,
                                           !.current = rl.current]
                         [] OTHER -> @]
                 /\ last' = [g EXCEPT
                               !.task = k, !.out = OutOf(d), !.port = d.port,
                               !.calls = d.calls, !.probe = seen, !.code = code,
                               !.had = had,
                               !.status = IF d.out = "raise" THEN 503 ELSE 0,
                               !.body = IF d.out = "raise" THEN ErrorBody ELSE {},
                               !.error = IF d.out = "raise"
                                         THEN "Failed to deploy API. Please try again."
                                         ELSE ""]

\* From the arrival of the request to its first suspension or its answer.
\* sf: whether the store calls of check_rate_limit fail.
proxy_to_user_api(k, api_id, authorization, sf, fault) ==
    /\ tasks[k].pc = "idle"
    /\ LET api_key == IF authorization # None /\ authorization[1] = "Bearer "
                      THEN authorization[2] ELSE ""
       IN  IF api_key = "" \/ ~verify_api_key(api_id, api_key)
           THEN /\ sf = "none"
                /\ Answer([GatewayStep(api_id, api_key, 1) EXCEPT
                              !.status = 401,
                              !.error = AuthFailure(api_id, api_key),
                              !.body = ErrorBody], fault)
                /\ UNCHANGED rate_limit_tracking
           ELSE
           LET api_metadata == apis[api_id]
               user_id == api_metadata.user_id
               rl == check_rate_limit(rate_limit_tracking, now, user_id,
                                      users[user_id].plan,
                                      users[user_id].custom_rate_limit, sf)
               info == [is_allowed |-> rl.is_allowed, limit |-> rl.limit,
                        remaining |-> rl.remaining, reset |-> rl.reset,
                        current |-> rl.current]
           IN  /\ rate_limit_tracking' = rl.rows
               /\ IF ~rl.is_allowed
                  THEN Answer([GatewayStep(api_id, api_key, 2) EXCEPT
                                  !.status = 429, !.error = "Rate limit exceeded",
                                  !.body = LimitBody, !.rl = info,
                                  !.store = sf], fault)
                  ELSE IF ~IsActive(api_metadata.status)
                  THEN Answer([GatewayStep(api_id, api_key, 3) EXCEPT
                                  !.status = 503,
                                  !.error = "API is " \o api_metadata.status,
                                  !.body = ErrorBody, !.rl = info,
                                  !.store = sf], fault)
                  ELSE /\ EnsureDeployed(k, api_id, rl,
                             [GatewayStep(api_id, api_key, 4) EXCEPT
                                  !.rl = info, !.store = sf], fault)
                       /\ UNCHANGED <<apis, now>>

\* Variant: the remaining of the check is sent as it is
RateLimitHeaders_NotDecremented(rate_limit_info) ==
    [NoInfo EXCEPT !.is_allowed = TRUE, !.limit = rate_limit_info.limit,
                   !.remaining = rate_limit_info.remaining,
                   !.reset = rate_limit_info.reset]

\* lines 566-571: X-RateLimit-Limit, X-RateLimit-Remaining, X-RateLimit-Reset
\* of the response, from the rate_limit_info of the request's check
RateLimitHeaders(rate_limit_info) ==
    [NoInfo EXCEPT !.is_allowed = TRUE, !.limit = rate_limit_info.limit,
                   !.remaining = Max(0, rate_limit_info.remaining - 1),
                   !.reset = rate_limit_info.reset]

\* What the try block of lines 484-540 can raise: the class of the exception
\* and, of its message, the words the handler looks for.  The handler tests
\* whether error_type contains "ConnectError", "ModuleNotFoundError" or
\* "ImportError"; for these classes that is whether it is one of them.
Exceptions ==
    {[error_type |-> "ConnectError", words |-> {}],
     [error_type |-> "ReadTimeout", words |-> {}],
     [error_type |-> "TimeoutError", words |-> {"timeout"}],
     [error_type |-> "RemoteProtocolError", words |-> {"Connection"}],
     [error_type |-> "ModuleNotFoundError", words |-> {}],
     [error_type |-> "ValueError", words |-> {}]}

NoException == [error_type |-> "", words |-> {}]

\* the connection to the port is refused
ConnectionRefused == [error_type |-> "ConnectError", words |-> {}]

\* a list of n lines of advice of one kind
Advice(kind, n) == [j \in 1..n |-> kind]

\* Variant: no advice for an exception of no known kind
Troubleshooting_NoneForUnexpected(e) ==
    IF e.error_type = "ConnectError" \/ "Connection" \in e.words
    THEN Advice("not responding", 6)
    ELSE IF "timeout" \in e.words THEN Advice("timed out", 5)
    ELSE IF e.error_type \in {"ModuleNotFoundError", "ImportError"}
    THEN Advice("missing dependency", 4)
    ELSE << >>

\* lines 616-648: error_details["troubleshooting"]
Troubleshooting(e) ==
    IF e.error_type = "ConnectError" \/ "Connection" \in e.words
    THEN Advice("not responding", 6)
    ELSE IF "timeout" \in e.words THEN Advice("timed out", 5)
    ELSE IF e.error_type \in {"ModuleNotFoundError", "ImportError"}
    THEN Advice("missing dependency", 4)
    ELSE Advice("unexpected", 5)

\* auth.log_api_usage: the entries it appends to api_usage_logs; a failure of
\* the store is printed only
log_api_usage(status_code, fault) ==
    IF fault = "store" THEN << >> ELSE <<status_code>>

\* lines 484-657: the upstream call and what follows it.  sf, lf: whether the
\* store calls of increment_rate_limit and of log_api_usage fail;  e: what
\* the try block raises when it raises.
Forward(k, outcome, sf, lf, e) ==
    /\ tasks[k].pc = "forward"
    /\ Listening(tasks[k].port) \/ outcome = "exc"
    /\ outcome = "exc" => sf = "none"
    /\ IF outcome = "exc" THEN e \in Exceptions ELSE e = NoException
    /\ LET t == tasks[k]
           user_id == apis[t.api_id].user_id
       IN  /\ tasks' = [tasks EXCEPT ![k] = Idle]
           /\ IF outcome = "ok"
              THEN /\ rate_limit_tracking' =
                         increment_rate_limit(rate_limit_tracking, now, user_id, sf)
                   /\ last' = [NoStep EXCEPT !.op = "forward", !.api_id = t.api_id,
                                 !.task = k, !.port = t.port, !.status = 200,
                                 !.logs = log_api_usage(200, lf),
                                 !.logfault = lf,
                                 !.steps = <<"forward">>,
                                 !.ok = t.built, !.store = sf,
                                 !.rl = RateLimitHeaders(t),
                                 !.i = Max(0, t.remaining - 1)]
              ELSE /\ UNCHANGED rate_limit_tracking
                   /\ last' = [NoStep EXCEPT !.op = "forward", !.api_id = t.api_id,
                                 !.task = k, !.port = t.port, !.status = 500,
                                 !.error = "API Execution Error",
                                 !.body = ExecutionBody,
                                 !.error_type = e.error_type,
                                 !.tips = Troubleshooting(e),
                                 !.logs = log_api_usage(500, lf),
                                 !.logfault = lf,
                                 !.steps = <<"forward">>,
                                 !.ok = t.built]
    /\ SameWorld
    /\ UNCHANGED <<apis, now, lastProbe>>

-----------------------------------------------------------------------------
(* The Docker daemon and the outside world *)

Env ==
    /\ last' = [NoStep EXCEPT !.op = "env"]
    /\ UNCHANGED <<api_containers, images, nextHandle, rate_limit_tracking, now,
                   tasks, lastProbe>>

\* the process of a container exits (bad code, out of memory, kill)
Crash(h) ==
    /\ h \in DOMAIN containers
    /\ containers[h].status = "running"
    /\ containers' = [containers EXCEPT ![h].status = "exited"]
    /\ Env
    /\ UNCHANGED apis

\* restart_policy unless-stopped: Docker starts an exited container again,
\* unless it was stopped through the API
Revive(h) ==
    /\ h \in DOMAIN containers
    /\ containers[h].status = "exited"
    /\ ~Listening(containers[h].port)
    /\ containers' = [containers EXCEPT ![h].status = "running"]
    /\ Env
    /\ UNCHANGED apis

\* someone removes a container behind the gateway's back (docker rm -f)
ExternalRemove(h) ==
    /\ h \in DOMAIN containers
    /\ containers' = Del(containers, h)
    /\ Env
    /\ UNCHANGED apis

\* the owner saves new code for a tenant that has code
UpdateCode(t, code) ==
    /\ apis[t].code_snapshot \notin {NoCode, code}
    /\ apis' = [apis EXCEPT ![t].code_snapshot = code]
    /\ Env
    /\ UNCHANGED containers

\* the statuses a row of table "apis" takes
Statuses == {"active", "inactive"}

\* the owner or an administrator changes the status of a tenant
SetStatus(t, status) ==
    /\ apis[t].status # status
    /\ apis' = [apis EXCEPT ![t].status = status]
    /\ Env
    /\ UNCHANGED containers

MaxTime == 3            \* the last tick of the clock

\* time passes
Tick ==
    /\ now < MaxTime
    /\ now' = now + 1
    /\ last' = [NoStep EXCEPT !.op = "env"]
    /\ UNCHANGED <<api_containers, containers, images, nextHandle, apis,
                   rate_limit_tracking, tasks, lastProbe>>

-----------------------------------------------------------------------------
(* Specifications *)

Ids == Tenants \cup {Ghost}
AdminHeaders == {Bearer(AdminKey), Bearer(KeyOf("t1"))}
\* the ids stop and status calls name: one that gets deployed, one that never is
Targets == {"t1", Ghost}

Calls(K) ==
    \/ \E k \in K, t \in Ids, a \in AdminHeaders, f \in DeployFaults :
          start_deployment(k, t, a, f)
    \/ \E t \in Targets, a \in AdminHeaders, f \in StopFaults :
          stop_deployment(t, a, f)
    \/ \E k \in K, t \in Ids, a \in AdminHeaders, f1 \in StopFaults,
          f2 \in DeployFaults : reload_single_api(k, t, a, f1, f2)
    \/ \E a \in AdminHeaders, fs \in [Tenants -> StopFaults] :
          cleanup_containers(a, fs)
    \/ \E t \in Targets, a \in AdminHeaders : get_deployment_status(t, a)
    \/ \E k \in K, t \in Ids, a \in AuthHeaders, f \in DeployFaults :
          proxy_to_user_api(k, t, a, "none", f)
    \/ \E k \in K, o \in ProbeOutcomes : PollStep(k, o)
    \/ \E k \in K, o \in {"ok", "exc"} :
          Forward(k, o, "none", "none", IF o = "ok" THEN NoException ELSE ConnectionRefused)

World_ ==
    \/ \E h \in 1..MaxContainers : Crash(h)
    \/ \E h \in 1..MaxContainers : Revive(h)
    \/ \E h \in 1..MaxContainers : ExternalRemove(h)
    \/ \E t \in Tenants, c \in Codes : UpdateCode(t, c)

\* One request at a time is in flight; the handlers that never suspend
\* (stop, cleanup) and the outside world run between its steps.
Next == Calls({1}) \/ World_

Spec == Init /\ [][Next]_vars

\* Two requests for tenant t1 in flight at once, each with its key, while
\* containers may exit and be restarted by Docker.
NextConcurrent ==
    \/ \E k \in TaskIds, f \in DeployFaults :
          proxy_to_user_api(k, "t1", Bearer(KeyOf("t1")), "none", f)
    \/ \E k \in TaskIds, o \in ProbeOutcomes : PollStep(k, o)
    \/ \E k \in TaskIds, o \in {"ok", "exc"} :
          Forward(k, o, "none", "none", IF o = "ok" THEN NoException ELSE ConnectionRefused)
    \/ \E h \in 1..MaxContainers : Crash(h)
    \/ \E h \in 1..MaxContainers : Revive(h)

SpecConcurrent == Init /\ [][NextConcurrent]_vars

MaxCount == 2           \* requests counted in one window when the store fails

\* a check whose store calls fail lets every request through: such checks are
\* explored while the window has counted fewer than MaxCount requests
StoreFaultsNow(user_id) ==
    IF CurrentCount(rate_limit_tracking, user_id,
                    get_current_window_start(now)) < MaxCount
    THEN StoreFaults ELSE {"none"}

\* The gateway alone: one request at a time, with any id and any header, while
\* the clock advances, the store may fail, the status of tenant t1 changes
\* and containers exit.
NextGateway ==
    \/ \E t \in Ids, a \in AuthHeaders, sf \in StoreFaultsNow(Owner),
          f \in DeployFaults : proxy_to_user_api(1, t, a, sf, f)
    \/ \E o \in ProbeOutcomes : PollStep(1, o)
    \/ \E o \in {"ok", "exc"}, sf \in StoreFaults :
          Forward(1, o, sf, "none", IF o = "ok" THEN NoException ELSE ConnectionRefused)
    \/ Tick
    \/ \E st \in Statuses : SetStatus("t1", st)
    \/ \E h \in 1..MaxContainers : Crash(h)

SpecGateway == Init /\ [][NextGateway]_vars

-----------------------------------------------------------------------------
(* The rate limiter alone *)

Plans == {"free", "pro", "enterprise", "trial"}     \* "trial": no tier of its own

\* what a window has counted when the exploration starts: nothing, or one
\* request less than the quota of a plan
StartCounts == {0} \cup {PlanLimit(p) - 1 : p \in Plans}

\* increments are explored up to MaxCount requests above a start count
MayCount(c) == \E c0 \in StartCounts : c0 <= c /\ c < c0 + MaxCount

\* the table as a gateway that starts finds it: empty, or with the row of the
\* first window
InitLimiter ==
    /\ api_containers = << >>
    /\ containers = << >>
    /\ images = {}
    /\ nextHandle = 1
    /\ apis = [t \in Tenants |->
                 [status |-> "active", api_key |-> KeyOf(t), user_id |-> Owner,
                  code_snapshot |-> IF t = "t1" THEN "v1" ELSE NoCode]]
    /\ rate_limit_tracking \in
          {<< >>} \cup {<<[user_id |-> Owner, window_start |-> 0,
                           request_count |-> c]>> : c \in StartCounts}
    /\ now = 0
    /\ tasks = [k \in TaskIds |-> Idle]
    /\ lastProbe = [t \in Tenants |-> "none"]
    /\ last = NoStep

Untouched ==
    UNCHANGED <<api_containers, containers, images, nextHandle, apis, now,
                tasks, lastProbe>>

\* a call of check_rate_limit
CheckLimit(user_id, user_plan, custom_rate_limit, sf) ==
    LET rl == check_rate_limit(rate_limit_tracking, now, user_id, user_plan,
                               custom_rate_limit, sf)
    IN  /\ rate_limit_tracking' = rl.rows
        /\ last' = [NoStep EXCEPT !.op = "check", !.user_id = user_id,
                      !.plan = user_plan, !.custom = custom_rate_limit,
                      !.store = sf,
                      !.rl = [is_allowed |-> rl.is_allowed, limit |-> rl.limit,
                              remaining |-> rl.remaining, reset |-> rl.reset,
                              current |-> rl.current]]
        /\ Untouched

\* a call of increment_rate_limit
Increment(user_id, sf) ==
    /\ MayCount(CurrentCount(rate_limit_tracking, user_id,
                             get_current_window_start(now)))
    /\ rate_limit_tracking' =
          increment_rate_limit(rate_limit_tracking, now, user_id, sf)
    /\ last' = [NoStep EXCEPT !.op = "increment", !.user_id = user_id,
                               !.store = sf]
    /\ Untouched

NextLimiter ==
    \/ \E p \in Plans, c \in {0, CustomLimit}, sf \in StoreFaults :
          CheckLimit(Owner, p, c, sf)
    \/ \E sf \in StoreFaults : Increment(Owner, sf)
    \/ Tick

SpecLimiter == InitLimiter /\ [][NextLimiter]_vars

-----------------------------------------------------------------------------
(* The administrative surface *)

\* an operation of the administrative surface, requested with the header a
AdminRequest(a) ==
    \/ get_metrics(a)
    \/ list_deployments(a)
    \/ \E t \in Targets : get_deployment_status(t, a)
    \/ \E t \in Targets, f \in StopFaults : stop_deployment(t, a, f)
    \/ \E t \in Ids, f \in DeployFaults : start_deployment(1, t, a, f)
    \/ \E t \in Ids, f1 \in StopFaults, f2 \in DeployFaults :
          reload_single_api(1, t, a, f1, f2)
    \/ \E f1 \in StopFaults, f2 \in DeployFaults : reload_apis(1, a, f1, f2)
    \/ \E fs \in [Tenants -> StopFaults] : cleanup_containers(a, fs)
    \/ \E t \in Targets : get_api_diagnostics(t, a)

\* Requests to the administrative surface with any header, one deploy in
\* flight at a time, while containers exit.
NextAdmin ==
    \/ \E a \in AuthHeaders : AdminRequest(a)
    \/ \E o \in ProbeOutcomes : PollStep(1, o)
    \/ \E h \in 1..MaxContainers : Crash(h)

SpecAdmin == Init /\ [][NextAdmin]_vars

-----------------------------------------------------------------------------
(* The deploy route *)

\* Requests to POST /deploy-api from any account, one at a time, while the
\* owner saves new code or changes the status of the tenant and containers
\* exit.
NextDeployRoute ==
    \/ \E t \in Ids, u \in Users \cup {NoUser}, f \in DeployFaults :
          deploy_api(1, t, u, f)
    \/ \E o \in ProbeOutcomes : PollStep(1, o)
    \/ \E t \in Tenants, c \in Codes : UpdateCode(t, c)
    \/ \E st \in Statuses : SetStatus("t1", st)
    \/ \E h \in 1..MaxContainers : Crash(h)

SpecDeployRoute == Init /\ [][NextDeployRoute]_vars

-----------------------------------------------------------------------------
(* The upstream call *)

\* the upstream call of the request in slot 1 ends: answered, or with any of
\* the exceptions, while the store may fail
UpstreamCall ==
    \E o \in {"ok", "exc"}, sf \in StoreFaults, lf \in StoreFaults,
       e \in Exceptions \cup {NoException} : Forward(1, o, sf, lf, e)

\* Requests with the key of tenant t1, one at a time, while containers exit.
NextUpstream ==
    \/ \E f \in DeployFaults :
          proxy_to_user_api(1, "t1", Bearer(KeyOf("t1")), "none", f)
    \/ \E o \in ProbeOutcomes : PollStep(1, o)
    \/ UpstreamCall
    \/ \E h \in 1..MaxContainers : Crash(h)

\* httpx.AsyncClient(timeout=30.0), line 530: the upstream call ends, with a
\* response or with an exception, and the event loop resumes the handler
SpecUpstream == Init /\ [][NextUpstream]_vars /\ WF_vars(UpstreamCall)

-----------------------------------------------------------------------------
(* Properties *)

\* the running containers of a tenant, among the containers cs
RunningIn(cs, t) ==
    {h \in DOMAIN cs : cs[h].api_id = t /\ cs[h].status = "running"}

RunningOf(t) == RunningIn(containers, t)

Table == <<api_containers, containers, images, nextHandle>>

\* C1: whatever deploys, stops, restarts, cleanups and gateway requests have
\* run, and however they interleaved, no tenant has two running containers.
C1_AtMostOneRunning ==
    \A t \in Tenants : Cardinality(RunningOf(t)) <= 1

\* a deploy found a running container that had no record, replaced it, and
\* the tenant has one running container
C1_Witness ==
    /\ last.op = "deploy" /\ last.out = "suspend"
    /\ ~last.had /\ "stop" \in last.calls
    /\ Cardinality(RunningOf(last.api_id)) = 1

DeploySteps == {"deploy", "restart", "gateway"}

\* C2: a tenant has a record exactly when one of its containers is running or
\* was running at the latest probe of its container; in particular no
\* container of a tenant runs while the tenant has no record.
C2_RecordIffRunning ==
    \A t \in Tenants :
        /\ RunningOf(t) # {} => t \in DOMAIN api_containers
        /\ t \in DOMAIN api_containers
              => RunningOf(t) # {} \/ lastProbe[t] = "running"

\* C2, its second half alone: no container of a tenant runs while the tenant
\* has no record.
C2_NoRunningWithoutRecord ==
    \A t \in Tenants : RunningOf(t) # {} => t \in DOMAIN api_containers

\* the deploy call of the latest step returned, for tenant t
DeployReturned(t) ==
    /\ last.api_id = t /\ last.out = "ret"
    /\ last.op = "deploy" \/ (last.op = "poll" /\ last.top = "deploy")

\* the record of t is there and no stop call has touched its container
NotStopped(t) ==
    /\ t \in DOMAIN api_containers
    /\ api_containers[t].container \in DOMAIN containers
    /\ containers[api_containers[t].container].status # "stopped"

\* C3 as stated: a deploy call that follows a returned deploy call for the
\* same tenant, with no stop in between, builds nothing, returns the same
\* port and leaves exactly one running container.
C3_TwiceInARow ==
    [][\A t \in Tenants :
         (DeployReturned(t) /\ NotStopped(t) /\ last'.op = "deploy"
             /\ last'.api_id = t /\ last'.status # 401)
         => /\ "build" \notin last'.calls
            /\ last'.port = last.port
            /\ Cardinality(RunningIn(containers', t)) = 1]_vars

\* C3, what holds: a deploy call that finds a record and whose probe reports
\* the container running returns the recorded port, which is the tenant's
\* allocated port, calls nothing but the probe, and changes neither the table
\* nor Docker; the tenant then has exactly one running container.
C3_ShortCircuit ==
    [][(last'.op = "deploy" /\ last'.had /\ last'.probe = "running")
         => /\ last'.out = "ret" /\ last'.status = 200
            /\ last'.calls = {"reload"}
            /\ last'.port = api_containers[last'.api_id].port
            /\ last'.port = _get_port_for_api(last'.api_id)
            /\ UNCHANGED Table
            /\ Cardinality(RunningIn(containers', last'.api_id)) = 1]_vars

\* a second deploy call answered from the record
C3_Witness ==
    /\ last.op = "deploy" /\ last.had /\ last.probe = "running"
    /\ last.out = "ret" /\ last.port = _get_port_for_api(last.api_id)

\* the requests in flight that have built an image and started a container
Builders == {k \in TaskIds : tasks[k].pc # "idle" /\ tasks[k].built}

\* C4 as stated: of two gateway requests for one tenant in flight at once, at
\* most one builds an image and starts a container.
C4_OneBuild == Cardinality(Builders) <= 1

\* C4, what holds: a gateway request that finds a record whose container the
\* probe reports running builds nothing and starts nothing, and goes on with
\* the recorded port; all requests in flight for the tenant hold the same
\* port, the tenant's allocated port.
C4_ReusesRunning ==
    /\ (last.op = "gateway" /\ last.had /\ last.probe = "running")
          => /\ last.calls = {"reload"}
             /\ tasks[last.task].pc = "forward" /\ ~tasks[last.task].built
             /\ last.port = api_containers[last.api_id].port
    /\ \A k \in TaskIds :
          tasks[k].pc # "idle" => tasks[k].port = _get_port_for_api(tasks[k].api_id)

\* a second request arrives while the first, which deployed, is still polling
C4_Witness ==
    /\ last.op = "gateway" /\ last.had /\ last.probe = "running"
    /\ \E j \in TaskIds \ {last.task} :
          /\ tasks[j].pc = "poll" /\ tasks[j].built
          /\ tasks[j].api_id = last.api_id

\* the restart call of the latest step returned its port
RestartReturned ==
    last.op = "poll" /\ last.top = "restart" /\ last.out = "ret"

\* C5 as stated: when restart returns a port, and no stop has touched the
\* container it started, the tenant has exactly one running container, built
\* from the code given, and the returned and the recorded port are the
\* allocated one.
C5_AfterRestart ==
    (RestartReturned /\ NotStopped(last.api_id))
       => LET t == last.api_id
          IN  /\ Cardinality(RunningOf(t)) = 1
              /\ \A h \in RunningOf(t) : containers[h].code = last.code
              /\ last.port = _get_port_for_api(t)
              /\ api_containers[t].port = _get_port_for_api(t)

\* C5, what holds: restart never answers from an old record; when it has
\* started the container (before the health poll) the tenant has exactly one
\* container, it is running, recorded, built from the code given, on the
\* allocated port, whether or not a record existed before; and the port it
\* returns after the poll is the allocated port.
C5_RestartStartsNewCode ==
    /\ last.op = "restart" /\ last.status # 401 /\ last.error = ""
          => last.out \in {"suspend", "raise"}
    /\ (last.op = "restart" /\ last.out = "suspend")
          => LET t == last.api_id
                 h == api_containers[t].container
             IN  /\ RunningOf(t) = {h}
                 /\ {x \in DOMAIN containers : containers[x].api_id = t} = {h}
                 /\ containers[h].code = last.code
                 /\ last.code = apis[t].code_snapshot
                 /\ last.port = _get_port_for_api(t)
                 /\ api_containers[t].port = last.port
    /\ RestartReturned
          => last.port = _get_port_for_api(last.api_id) /\ last.status = 200

\* a restart with new code replaced a recorded container
C5_Witness ==
    /\ last.op = "restart" /\ last.out = "suspend" /\ last.had
    /\ last.code = "v2" /\ nextHandle > 2

\* C6: when the stop step of restart raises, restart raises (the handler
\* answers 500), and no image is built and no container started in the call.
C6_StopFailureEndsRestart ==
    (last.op = "restart" /\ last.stop = "raise")
       => /\ last.out = "raise" /\ last.status = 500
          /\ last.calls \cap {"build", "get", "run"} = {}
          /\ tasks[last.task].pc = "idle"

\* the stop step of a restart failed
C6_Witness ==
    /\ last.op = "restart" /\ last.stop = "raise" /\ last.had
    /\ last.api_id \in DOMAIN api_containers

\* C7: stop for a tenant without a record returns false, does not raise,
\* calls nothing on Docker and changes neither the table nor Docker.
C7_StopUnknown ==
    [][(last'.op = "stop" /\ last'.status # 401
           /\ last'.api_id \notin DOMAIN api_containers)
         => /\ last'.out = "ret" /\ ~last'.ok
            /\ last'.calls = {}
            /\ UNCHANGED Table]_vars

\* stop was called for a tenant without a record
C7_Witness ==
    /\ last.op = "stop" /\ ~last.had /\ last.status # 401
    /\ last.out = "ret" /\ ~last.ok

\* C8: when stop reaches the removal of the image (stopping and removing the
\* container succeeded), it returns true and the record is gone, also when
\* the removal of the image fails.
C8_ImageFailureIgnored ==
    (last.op = "stop" /\ "rmi" \in last.calls)
       => /\ last.out = "ret" /\ last.ok /\ last.status = 200
          /\ last.api_id \notin DOMAIN api_containers
          /\ last.fault = "rmi" => ImageTag(last.api_id) \in images

\* stop returned true although the image could not be removed
C8_Witness ==
    /\ last.op = "stop" /\ last.fault = "rmi" /\ "rmi" \in last.calls
    /\ last.ok /\ ImageTag(last.api_id) \in images
    /\ last.api_id \notin DOMAIN api_containers

\* the answers the proxy handler gives before its deploy-ensure step
Rejections == {401, 429}

\* C9: when the deploy call of a start, of a gateway request or of a restart
\* whose stop step returned raises, the tenant has no record afterwards, the
\* admin call answers 500 and the gateway request 503; and the gateway
\* request that follows a failed one for the same tenant, unless rejected
\* before, deploys from scratch: it finds no record and builds.
C9_FailedDeploy ==
    [][/\ (last'.op \in DeploySteps /\ last'.out = "raise"
              /\ last'.stop # "raise")
            => /\ last'.api_id \notin DOMAIN api_containers'
               /\ "build" \in last'.calls
               /\ last'.status = IF last'.op = "gateway" THEN 503 ELSE 500
               /\ tasks'[last'.task].pc = "idle"
       /\ (last.op = "gateway" /\ last.out = "raise" /\ last'.op = "gateway"
              /\ last'.api_id = last.api_id /\ last'.status \notin Rejections)
            => ~last'.had /\ "build" \in last'.calls]_vars

\* a gateway request whose deploy failed was answered 503
C9_Witness ==
    /\ last.op = "gateway" /\ last.out = "raise" /\ last.status = 503
    /\ last.had /\ last.api_id \notin DOMAIN api_containers

\* C10: the health poll makes at most max_retries probes; when the last of
\* them fails too, deploy returns the allocated port; and the record is
\* written when the poll starts.
C10_PollBounded ==
    /\ \A k \in TaskIds : tasks[k].pc = "poll" => tasks[k].i < max_retries
    /\ last.op = "poll"
          => /\ last.i <= max_retries
             /\ last.i = max_retries
                   => /\ last.out = "ret"
                      /\ last.port = _get_port_for_api(last.api_id)
                      /\ tasks[last.task].pc # "poll"
    /\ (last.op \in DeploySteps /\ last.out = "suspend")
          => /\ last.api_id \in DOMAIN api_containers
             /\ api_containers[last.api_id].port = last.port
             /\ tasks[last.task].pc = "poll" /\ tasks[last.task].i = 0

\* every one of the max_retries probes failed and deploy returned its port
C10_Witness ==
    /\ last.op = "poll" /\ last.i = max_retries /\ last.probe = "exc"
    /\ last.out = "ret" /\ last.port = _get_port_for_api(last.api_id)

\* the probe of the sweep sees the recorded container of t running
ProbedRunning(t) ==
    /\ api_containers[t].container \in DOMAIN containers
    /\ containers[api_containers[t].container].status = "running"

\* C11: a sweep does not raise (the handler answers 200); after it the table
\* holds no record whose container the sweep probed as not running or could
\* not probe, whether or not the stop of that record failed; a record whose
\* container it probed as running is unchanged, and so is that container; and
\* the sweep adds no record.
C11_SweepDropsDead ==
    [][(last'.op = "cleanup" /\ last'.status # 401)
         => /\ last'.out = "ret" /\ last'.status = 200
            /\ DOMAIN api_containers' \subseteq DOMAIN api_containers
            /\ \A t \in DOMAIN api_containers :
                  IF ProbedRunning(t)
                  THEN /\ t \in DOMAIN api_containers'
                       /\ api_containers'[t] = api_containers[t]
                       /\ api_containers[t].container \in DOMAIN containers'
                       /\ containers'[api_containers[t].container]
                             = containers[api_containers[t].container]
                  ELSE t \notin DOMAIN api_containers']_vars

\* a sweep found a dead record, its stop failed, and the record is gone while
\* the container is still there
C11_Witness ==
    /\ last.op = "cleanup" /\ last.had /\ last.stop = "raise"
    /\ last.out = "ret"
    /\ \E h \in DOMAIN containers :
          containers[h].api_id \notin DOMAIN api_containers

\* tenant t has a live deployment: a record whose container runs
HasLive(t) == t \in DOMAIN api_containers /\ ProbedRunning(t)

\* a gateway request that passed the key, quota and status checks and finds no
\* live deployment: without a code snapshot it ends with 503 and nothing is
\* built; with one, it builds, and ends with 503 when the deploy raises
DeploysOnDemand ==
    (last'.op = "gateway" /\ Len(last'.steps) = 4 /\ ~HasLive(last'.api_id))
       => IF apis[last'.api_id].code_snapshot = NoCode
          THEN /\ last'.status = 503 /\ last'.error = "API code not found"
               /\ last'.calls \cap {"build", "run"} = {}
               /\ UNCHANGED Table /\ UNCHANGED tasks
          ELSE /\ "build" \in last'.calls
               /\ last'.out \in {"suspend", "raise"}
               /\ last'.out = "raise" <=> last'.status = 503
               /\ last'.out = "suspend"
                     => /\ last'.status = 0
                        /\ tasks'[last'.task].pc = "poll"
                        /\ tasks'[last'.task].built

\* C12 as stated: such a request deploys on demand, and when its deploy has
\* returned the request is answered with the tenant's response.
C12_ServedAfterDeploy ==
    [][/\ DeploysOnDemand
       /\ (last'.op = "forward" /\ last'.ok) => last'.status = 200]_vars

\* C12, what holds: such a request deploys on demand; when its deploy returns
\* (the health poll ended, with or without a healthy probe) the request is not
\* answered yet and goes on to the upstream call on the allocated port; it is
\* then answered 200 with the tenant's response when the upstream call
\* answers, and 500 "API Execution Error" when the call fails, never 503.
C12_ForwardedAfterDeploy ==
    [][/\ DeploysOnDemand
       /\ (last'.op = "poll" /\ last'.top = "gateway" /\ last'.out = "ret")
            => /\ last'.status = 0
               /\ tasks'[last'.task].pc = "forward"
               /\ tasks'[last'.task].port = _get_port_for_api(last'.api_id)
       /\ (last'.op = "forward" /\ last'.ok)
            => /\ tasks[last'.task].pc = "forward" /\ tasks[last'.task].built
               /\ last'.status \in {200, 500}
               /\ last'.status = 500 <=> last'.error = "API Execution Error"
               /\ last'.status = 200 => Listening(last'.port)]_vars

\* a request redeployed a tenant whose container had gone and was answered
\* with the tenant's response
C12_Witness ==
    /\ last.op = "forward" /\ last.ok /\ last.status = 200
    /\ nextHandle > 2

\* C13: a gateway request runs a prefix of auth, rate-limit check, status
\* check, deploy-ensure, in that order, and the upstream call after them.  It
\* gets past auth only with the key of the tenant's row, past the rate-limit
\* check only when the check allowed it, past the status check only when the
\* row is active, and is handed to the upstream call only with the port of a
\* recorded deployment.  A request answered 401 has not touched the
\* rate-limit table; one answered 401, 429 or 503 for its status has probed,
\* built and started nothing and is not in flight.
C13_StepsInOrder ==
    [][/\ last'.op = "gateway"
            => LET g == last'
                   t == g.api_id
                   n == Len(g.steps)
               IN  /\ n \in 1..4
                   /\ g.steps = SubSeq(<<"auth", "rate", "status", "ensure">>, 1, n)
                   /\ n >= 2 => /\ t \in DOMAIN apis
                                /\ g.key # "" /\ g.key = apis[t].api_key
                   /\ n >= 3 => g.rl.is_allowed
                   /\ n = 4 => apis[t].status = "active"
                   /\ n = 1 <=> g.status = 401
                   /\ n = 2 <=> g.status = 429
                   /\ n = 3 => g.status = 503
                   /\ n = 1 => UNCHANGED rate_limit_tracking
                   /\ n <= 3 => /\ g.calls = {}
                                /\ UNCHANGED Table /\ UNCHANGED tasks
                   /\ tasks' # tasks
                         => /\ n = 4 /\ g.status = 0
                            /\ tasks'[g.task].pc \in {"poll", "forward"}
                            /\ t \in DOMAIN api_containers'
                            /\ tasks'[g.task].port = api_containers'[t].port
       /\ \A k \in TaskIds :
             (tasks'[k].pc = "forward" /\ tasks[k].pc # "forward")
                => \/ last'.op = "gateway" /\ Len(last'.steps) = 4
                   \/ last'.op = "poll" /\ tasks[k].pc = "poll"
       /\ last'.op = "forward"
            => /\ tasks[last'.task].pc = "forward"
               /\ last'.port = tasks[last'.task].port]_vars

\* a request passed the four steps in a later window than the tenant's first
\* request and is handed to the upstream call
C13_Witness ==
    /\ last.op = "gateway" /\ Len(last.steps) = 4 /\ last.status = 0
    /\ tasks[last.task].pc = "forward"
    /\ last.rl.is_allowed /\ last.key = apis[last.api_id].api_key
    /\ Len(rate_limit_tracking) > 1

\* C14: a gateway request without a key, with a key that is not the key of
\* the tenant's row, or for an id no row has is answered 401 with a body that
\* has the one field "error"; the answer to a request that gives a key is the
\* same for a wrong key and for an unknown id, so it does not tell whether the
\* tenant exists; the answer to a request without a key does not depend on
\* the id either.
C14_SameUnauthorized ==
    /\ (last.op = "gateway"
          /\ (\/ last.key = ""
              \/ last.api_id \notin DOMAIN apis
              \/ last.key # apis[last.api_id].api_key))
          => last.status = 401
    /\ (last.op = "gateway" /\ last.status = 401)
          => /\ last.body = {"error"}
             /\ last.error =
                  IF last.key = ""
                  THEN "Missing API key. Include 'Authorization: Bearer YOUR_API_KEY' header"
                  ELSE "Invalid API key or API not found"

\* a request for an id no row has, with the key of a tenant, was answered 401
C14_Witness ==
    /\ last.op = "gateway" /\ last.status = 401
    /\ last.api_id = Ghost /\ last.key = KeyOf("t1")
    /\ last.error = "Invalid API key or API not found"

\* the hour of a clock value, and the requests the table has counted for an
\* account in an hour
Hour(clock) == clock \div TicksPerHour

RowsOf(rows, user_id, h) ==
    {n \in 1..Len(rows) : /\ rows[n].user_id = user_id
                          /\ Hour(rows[n].window_start) = h}

Counted(rows, user_id, h) ==
    IF RowsOf(rows, user_id, h) = {} THEN 0
    ELSE rows[CHOOSE n \in RowsOf(rows, user_id, h) :
                 \A m \in RowsOf(rows, user_id, h) : n <= m].request_count

\* the latest step is a gateway request with the key of its tenant
Authenticated(g) ==
    /\ g.op = "gateway" /\ g.api_id \in DOMAIN apis
    /\ g.key = apis[g.api_id].api_key

\* C15 as stated: an authenticated request for a tenant that is not active is
\* answered 503 "API is <status>" whatever the rate-limit window holds, is
\* not forwarded and deploys nothing.
C15_InactiveAlways503 ==
    [][(Authenticated(last') /\ apis[last'.api_id].status # "active")
         => /\ last'.status = 503
            /\ last'.error = "API is " \o apis[last'.api_id].status
            /\ last'.calls = {}
            /\ UNCHANGED Table /\ UNCHANGED tasks]_vars

\* C15, what holds: such a request is answered 429 when the rate-limit check
\* refuses it (the store answers and the window has counted the quota), and
\* 503 "API is <status>" otherwise; in both cases it is not forwarded, probes
\* and deploys nothing.
C15_InactiveRefused ==
    [][(Authenticated(last') /\ apis[last'.api_id].status # "active")
         => /\ last'.status \in {429, 503}
            /\ last'.status = 429
                  <=> /\ last'.store = "none"
                      /\ Counted(rate_limit_tracking,
                                 apis[last'.api_id].user_id, Hour(now))
                            >= CustomLimit
            /\ last'.status = 503
                  => /\ last'.error = "API is " \o apis[last'.api_id].status
                     /\ last'.body = {"error"}
            /\ last'.calls = {}
            /\ UNCHANGED Table /\ UNCHANGED tasks]_vars

\* an inactive tenant with a running container: the request is answered 503
C15_Witness ==
    /\ Authenticated(last) /\ last.status = 503
    /\ last.error = "API is inactive" /\ last.store = "none"
    /\ HasLive(last.api_id)

\* the quota of a plan
QuotaOf(user_plan) ==
    CASE user_plan = "pro" -> rate_limit_pro
      [] user_plan = "enterprise" -> rate_limit_enterprise
      [] OTHER -> rate_limit_free

\* the latest step is a call of check_rate_limit whose store calls succeeded
Checked(c) == c.op = "check" /\ c.store = "none"

\* C16: for an account without override on a plan with quota Q, and a store
\* that answers: a check returns allowed exactly when the table has counted
\* fewer than Q requests for the account in the hour of the clock, whatever
\* it counted in earlier hours; its reset is the start of the next hour; its
\* remaining is Q less the count, floored at 0; the first check of an hour
\* creates the row of the hour with count 0 and changes no other row.
C16_WindowQuota ==
    [][(Checked(last') /\ last'.custom = 0)
         => LET Q == QuotaOf(last'.plan)
                u == last'.user_id
                h == Hour(now)
                c == Counted(rate_limit_tracking, u, h)
            IN  /\ last'.rl.is_allowed <=> c < Q
                /\ last'.rl.limit = Q
                /\ last'.rl.current = c
                /\ last'.rl.remaining = IF c < Q THEN Q - c ELSE 0
                /\ last'.rl.reset = (h + 1) * TicksPerHour
                /\ RowsOf(rate_limit_tracking, u, h) = {}
                      => /\ last'.rl.is_allowed
                         /\ rate_limit_tracking' =
                               Append(rate_limit_tracking,
                                      [user_id |-> u,
                                       window_start |-> h * TicksPerHour,
                                       request_count |-> 0])
                /\ RowsOf(rate_limit_tracking, u, h) # {}
                      => UNCHANGED rate_limit_tracking]_vars

\* the first check of the second hour is allowed although the first hour
\* counted more than the quota
C16_Witness ==
    /\ Checked(last) /\ last.custom = 0 /\ last.plan = "free"
    /\ Hour(now) = 1 /\ last.rl.is_allowed /\ last.rl.current = 0
    /\ Counted(rate_limit_tracking, last.user_id, 0) > rate_limit_free

\* C17: when the store calls of the rate-limit check fail, the check returns
\* allowed with remaining 0 and the limit of the plan and writes nothing, and
\* the gateway request is not answered 429: it goes on to the status check
\* and, for an active tenant, to deploy-ensure, whatever the window counted.
C17_FailOpen ==
    [][(Authenticated(last') /\ last'.store = "store")
         => /\ last'.rl.is_allowed
            /\ last'.rl.remaining = 0
            /\ last'.rl.limit = QuotaOf(users[apis[last'.api_id].user_id].plan)
            /\ UNCHANGED rate_limit_tracking
            /\ last'.status # 429
            /\ Len(last'.steps) >= 3
            /\ apis[last'.api_id].status = "active"
                  => /\ Len(last'.steps) = 4
                     /\ HasLive(last'.api_id)
                           => last'.status = 0 /\ tasks'[last'.task].pc = "forward"]_vars

\* the window has counted the quota, the store fails, and the request is
\* handed to the upstream call
C17_Witness ==
    /\ Authenticated(last) /\ last.store = "store"
    /\ Counted(rate_limit_tracking, Owner, Hour(now)) >= CustomLimit
    /\ tasks[last.task].pc = "forward"

\* no two rows of the table have the same account and window start
OneRowPerWindow(rows) ==
    \A n, m \in 1..Len(rows) :
        (rows[n].user_id = rows[m].user_id
            /\ rows[n].window_start = rows[m].window_start) => n = m

\* C18: however calls of check_rate_limit and increment_rate_limit follow one
\* another, with or without store failures, the table has at most one row
\* for an account and a window start; no call removes or rekeys a row or
\* lowers its count; and a row is created with count 0 by a check and with
\* count 1 by an increment.
C18_OneRowMonotone ==
    [][/\ OneRowPerWindow(rate_limit_tracking)
       /\ OneRowPerWindow(rate_limit_tracking')
       /\ Len(rate_limit_tracking') \in
             {Len(rate_limit_tracking), Len(rate_limit_tracking) + 1}
       /\ \A n \in 1..Len(rate_limit_tracking) :
             /\ rate_limit_tracking'[n].user_id = rate_limit_tracking[n].user_id
             /\ rate_limit_tracking'[n].window_start
                   = rate_limit_tracking[n].window_start
             /\ rate_limit_tracking'[n].request_count
                   >= rate_limit_tracking[n].request_count
       /\ Len(rate_limit_tracking') > Len(rate_limit_tracking)
             => rate_limit_tracking'[Len(rate_limit_tracking')].request_count
                   = IF last'.op = "check" THEN 0 ELSE 1]_vars

\* an increment in the second hour, with no check before it in that hour,
\* made the second row of the account
C18_Witness ==
    /\ last.op = "increment" /\ last.store = "none"
    /\ Len(rate_limit_tracking) = 2
    /\ rate_limit_tracking[1].request_count > 0
    /\ rate_limit_tracking[2].request_count = 1
    /\ rate_limit_tracking[2].window_start = TicksPerHour

\* the hours of the exploration
Hours == 0..Hour(MaxTime)

\* the counts of the owner's windows are the same in the tables r1 and r2
SameCounts(r1, r2) ==
    \A h \in Hours : Counted(r2, Owner, h) = Counted(r1, Owner, h)

\* the table r2 counts one request more than r1 in hour h0, and the same in
\* every other hour
OneMore(r1, r2, h0) ==
    \A h \in Hours :
        Counted(r2, Owner, h) = Counted(r1, Owner, h) + (IF h = h0 THEN 1 ELSE 0)

\* no step but the answered upstream call changes a count
OnlyForwardCounts ==
    ~(last'.op = "forward" /\ last'.status = 200)
        => SameCounts(rate_limit_tracking, rate_limit_tracking')

\* C19 as stated: a request answered 401, 429 or 503, and one whose upstream
\* call fails, changes no count, and every request whose upstream call was
\* answered adds exactly one to the count of the current window.
C19_CountsEveryForward ==
    [][/\ OnlyForwardCounts
       /\ (last'.op = "forward" /\ last'.status = 200)
             => OneMore(rate_limit_tracking, rate_limit_tracking', Hour(now))]_vars

\* C19, what holds: a request answered 401, 429 or 503, and one whose
\* upstream call fails, changes no count; a request whose upstream call was
\* answered adds exactly one to the count of the window current at that
\* moment when the store calls of the increment succeed, and changes no count
\* when they fail (the failure is printed and the response is sent all the
\* same).
C19_CountsForwardUnlessStoreFails ==
    [][/\ OnlyForwardCounts
       /\ (last'.op = "forward" /\ last'.status = 200)
             => IF last'.store = "none"
                THEN OneMore(rate_limit_tracking, rate_limit_tracking', Hour(now))
                ELSE UNCHANGED rate_limit_tracking]_vars

\* a request that was checked in the first hour was answered in the second
\* and counted there
C19_Witness ==
    /\ last.op = "forward" /\ last.status = 200 /\ last.store = "none"
    /\ Hour(now) = 1
    /\ Counted(rate_limit_tracking, Owner, 1) = 1
    /\ Counted(rate_limit_tracking, Owner, 0) = 0
    /\ RowsOf(rate_limit_tracking, Owner, 0) # {}

EndOfHour(clock) == (Hour(clock) + 1) * TicksPerHour

\* the latest step is an upstream call that was answered
Forwarded(f) == f.op = "forward" /\ f.status = 200

\* C21 as stated: the response of a forwarded request carries the limit of the
\* request's check as X-RateLimit-Limit, and as X-RateLimit-Remaining that
\* limit less the count the table holds for the window after the increment of
\* the request, floored at 0.
C21_HeaderIsStoredRemaining ==
    [][Forwarded(last')
         => /\ last'.rl.limit = tasks[last'.task].limit
            /\ last'.rl.remaining =
                  Max(0, last'.rl.limit
                           - Counted(rate_limit_tracking',
                                     apis[last'.api_id].user_id, Hour(now)))]_vars

\* C21, what holds: a request that passes its check keeps the rate_limit_info
\* of the check until it is answered (limit, and remaining = limit less the
\* count of the window at the check, when the store answered; the limit of
\* the plan and remaining 0 when it did not); the response of a forwarded
\* request carries that limit and that reset, and that remaining less one,
\* floored at 0.  This is the limit less the stored count after the increment
\* when the store answered the check and the increment, the hour of the check
\* has not ended and the window has counted nothing since the check.
C21_HeaderFromCheck ==
    [][/\ (last'.op = "gateway" /\ last'.status = 0)
            => LET t == tasks'[last'.task]
                   u == apis[last'.api_id].user_id
                   c == Counted(rate_limit_tracking, u, Hour(now))
               IN  /\ t.limit = last'.rl.limit
                   /\ t.remaining = last'.rl.remaining
                   /\ t.reset = last'.rl.reset
                   /\ t.current = last'.rl.current
                   /\ t.reset = EndOfHour(now)
                   /\ IF last'.store = "none"
                      THEN /\ t.limit = LimitFor(users[u].plan,
                                                 users[u].custom_rate_limit)
                           /\ t.current = c
                           /\ t.remaining = t.limit - c /\ t.remaining > 0
                      ELSE /\ t.limit = PlanLimit(users[u].plan)
                           /\ t.remaining = 0 /\ t.current = 0
       /\ (last'.op = "poll" /\ last'.top = "gateway")
            => LET t == tasks[last'.task]
               IN  /\ tasks'[last'.task].limit = t.limit
                   /\ tasks'[last'.task].remaining = t.remaining
                   /\ tasks'[last'.task].reset = t.reset
                   /\ tasks'[last'.task].current = t.current
       /\ Forwarded(last')
            => LET t == tasks[last'.task]
                   u == apis[last'.api_id].user_id
                   h == Hour(now)
               IN  /\ last'.rl.limit = t.limit
                   /\ last'.rl.reset = t.reset
                   /\ last'.rl.remaining =
                         IF t.remaining > 0 THEN t.remaining - 1 ELSE 0
                   /\ (/\ last'.store = "none" /\ t.remaining > 0
                       /\ t.reset = EndOfHour(now)
                       /\ Counted(rate_limit_tracking, u, h) = t.current)
                         => last'.rl.remaining =
                              Max(0, t.limit - Counted(rate_limit_tracking', u, h))]_vars

\* the first request of the second hour was forwarded and counted, and its
\* response carries the limit of the account and the remaining after it
C21_Witness ==
    /\ Forwarded(last) /\ last.store = "none" /\ Hour(now) = 1
    /\ last.rl.reset = EndOfHour(now)
    /\ last.rl.limit = CustomLimit
    /\ last.rl.remaining = CustomLimit - 1
    /\ Counted(rate_limit_tracking, Owner, 1) = 1

\* the latest step is an upstream call that failed
ForwardFailed(f) == f.op = "forward" /\ f.status # 200

\* what holds of a failed upstream call whatever the store does: no count
\* changes, the answer is 500 with a body that has the fields error,
\* error_type and troubleshooting, the list not empty, and the request is
\* answered
AnswersFailure ==
    ForwardFailed(last')
       => /\ tasks[last'.task].pc = "forward"
          /\ tasks'[last'.task].pc = "idle"
          /\ last'.status = 500
          /\ UNCHANGED rate_limit_tracking
          /\ {"error", "error_type", "troubleshooting"} \subseteq last'.body
          /\ last'.error = "API Execution Error"
          /\ last'.error_type # ""
          /\ Len(last'.tips) > 0
          /\ Len(last'.logs) <= 1
          /\ \A n \in 1..Len(last'.logs) : last'.logs[n] = 500

\* a request handed to the upstream call is answered
InFlight == tasks[1].pc = "forward"
Answered == tasks[1].pc = "idle" /\ last.op = "forward" /\ last.status \in {200, 500}

\* C22 as stated: a failed upstream call appends exactly one usage log entry,
\* with status 500, increments no count, and is answered 500 with such a
\* body; the request is always answered.
C22_OneLogEntry ==
    /\ [][AnswersFailure /\ (ForwardFailed(last') => last'.logs = <<500>>)]_vars
    /\ (InFlight ~> Answered)

\* C22, what holds: a failed upstream call makes one call of the usage log,
\* with status 500, which appends one entry when the store answers and none
\* when the store call fails (the failure is printed and the answer is sent
\* all the same); it increments no count and is answered 500 with such a
\* body; the request is always answered.
C22_UpstreamFailure ==
    /\ [][AnswersFailure
          /\ (ForwardFailed(last')
                => last'.logs = IF last'.logfault = "none" THEN <<500>>
                                ELSE << >>)]_vars
    /\ (InFlight ~> Answered)

\* the upstream call of a request that had deployed its tenant ended with an
\* exception of no known kind; it was logged and answered 500
C22_Witness ==
    /\ ForwardFailed(last) /\ last.ok /\ last.error_type = "ValueError"
    /\ last.logs = <<500>> /\ Len(last.tips) = 5
    /\ tasks[1].pc = "idle"

\* the headers that do not carry the admin credential: none, an empty key,
\* the key of a tenant
OtherHeaders == AuthHeaders \ {Bearer(AdminKey)}

\* the step answers 401 and nothing else: no table or container changes, no
\* container is probed, no request is left in flight, no data is answered
Unauthorized ==
    /\ last'.status = 401 /\ last'.error = "Unauthorized"
    /\ UNCHANGED <<api_containers, containers, images, nextHandle, tasks,
                   lastProbe>>
    /\ last'.calls = {} /\ last'.body = DetailBody /\ last'.port = 0
    /\ last'.probe = "none"

\* C23: every operation of the administrative surface (metrics, list, health
\* of a tenant, stop, start, reload one, reload all, cleanup, diagnostics of a
\* tenant: status, port, image tag and log lines) requested with a header
\* that is not the admin credential, the key of a tenant included, is
\* answered 401 and touches and tells nothing.
C23_AdminOnly ==
    [][\A a \in OtherHeaders : AdminRequest(a) => Unauthorized]_vars

\* the steps that answer tenant traffic on /run/{api_id}
TenantOps == {"gateway", "forward"}

\* the steps that answer on the administrative surface
AdminOps == {"deploy", "restart", "stop", "health", "cleanup", "metrics",
             "list", "reload_all"}

ErrorAnswered == last.status >= 400

ReturnedPort ==
    /\ last.op \in {"deploy", "restart", "reload_all", "gateway", "poll"}
    /\ last.out = "ret" /\ last.port # 0

\* C25: the port of a tenant is a function of its id alone and lies in
\* [9000, 19000); the recorded port of a tenant, the port a deploy in its
\* health poll waits on, and every port a deploy or restart returns for the
\* tenant equal it.
C25_PortOfId ==
    /\ \A t \in Tenants : _get_port_for_api(t) \in 9000..18999
    /\ \A t \in DOMAIN api_containers :
          api_containers[t].port = _get_port_for_api(t)
    /\ \A k \in TaskIds :
          tasks[k].pc = "poll" => tasks[k].port = _get_port_for_api(tasks[k].api_id)
    /\ ReturnedPort =>
          /\ last.api_id \in Tenants
          /\ last.port = _get_port_for_api(last.api_id)

\* a restart of t1 returns port 12074, which is also the recorded port
C25_Witness ==
    /\ ReturnedPort /\ last.op = "poll" /\ last.top = "restart"
    /\ last.api_id = "t1" /\ last.port = 12074
    /\ "t1" \in DOMAIN api_containers /\ api_containers["t1"].port = 12074

\* a probe of the health poll has been answered and another one follows
ProbeFollows == last'.op = "poll" /\ last'.out = "suspend"

\* C26: in the health poll of deploy the task sleeps between any two
\* successive probes, whatever the earlier probe's outcome (an exception, or
\* a response whose status is not accepted as healthy): no two probes are
\* issued back to back.
C26_SleepsBetweenProbes == [][ProbeFollows => last'.slept]_vars

\* POST /deploy-api has just answered with success
RouteSucceeded ==
    /\ last.status = 200
    /\ last.op = "deploy_route" \/ (last.op = "poll" /\ last.top = "deploy_route")

\* C27: when POST /deploy-api answers with success, the container running for
\* the tenant was built from the code snapshot the request read from the
\* store, also when a container built from older code was running before.
C27_RebuiltFromLatestCode ==
    RouteSucceeded =>
        \A h \in RunningOf(last.api_id) : containers[h].code = last.code

\* an admin request that carried the credential named a tenant that is not
\* there: a stop of a tenant without a record, a start or reload of a tenant
\* without a row or without code
TargetNotFound ==
    /\ last'.status # 401
    /\ \/ last'.op = "stop" /\ ~last'.had
       \/ /\ last'.op \in {"deploy", "restart"}
          /\ \/ last'.api_id \notin DOMAIN apis
             \/ apis[last'.api_id].code_snapshot = NoCode

\* C28: with the admin credential, a stop of a tenant without a deployment
\* record, and a start or reload of a tenant that the store does not know or
\* that has no code, are answered 404 and leave the deployment table as it is.
C28_NotFound ==
    [][TargetNotFound => last'.status = 404 /\ UNCHANGED Table]_vars

\* the requests that passed their rate-limit check and are not answered yet
Flying == {k \in TaskIds : tasks[k].pc # "idle" /\ tasks[k].op = "gateway"}

\* what the current window of the owner has counted: the requests of the
\* window whose upstream call was answered
CountedNow == Counted(rate_limit_tracking, Owner, Hour(now))

\* C29 as stated: with the store reachable, the requests of an account
\* forwarded upstream within one hour window never exceed its quota, however
\* the checks and increments of concurrent requests interleave.
C29_NeverOverQuota == CountedNow <= CustomLimit

\* C29, what holds: with the store reachable, every request in flight past
\* its check was allowed by a check that read fewer counted requests than the
\* quota, and the count of the window plus the requests in flight is at most
\* the quota plus the number of request slots less one: the count exceeds the
\* quota by at most the number of requests that were in flight together with
\* the one that reached it.
C29_QuotaUpToInFlight ==
    /\ \A k \in Flying : /\ tasks[k].limit = CustomLimit
                         /\ tasks[k].current < tasks[k].limit
    /\ CountedNow + Cardinality(Flying) <= CustomLimit + Cardinality(TaskIds) - 1

\* two requests checked before either was counted, both were answered: the
\* window has counted one more than the quota
C29_Witness ==
    /\ last.op = "forward" /\ last.status = 200
    /\ CountedNow = CustomLimit + 1 /\ Flying = {}

\* the containers Docker holds for tenant t, running or not
ContainersOf(t) == {h \in DOMAIN containers : containers[h].api_id = t}

\* C30: whenever deploy returns a port for a tenant without raising, at that
\* moment the table holds a record of the tenant with that port and Docker
\* holds a container of the tenant, also when a stop, restart or cleanup of
\* the tenant ran while the deploy was suspended in its health poll.
C30_RecordAtReturn ==
    ReturnedPort =>
        /\ last.api_id \in DOMAIN api_containers
        /\ api_containers[last.api_id].port = last.port
        /\ ContainersOf(last.api_id) # {}

=============================================================================
